---- MODULE Spec2Model ----
(***************************************************************************)
(* Financial-statement analysis: metric extraction, ratio engine, risk     *)
(* assessor and the upload/analyse pipeline that drives them.              *)
(*                                                                         *)
(* Amounts (metric values) are integers counting hundredths of a currency  *)
(* unit, so a parsed "1,234.50" is 123450.  Ratios are exact rationals     *)
(* [num, den] with den > 0; Python's floats are read as the reals they     *)
(* approximate, except where a comparison sits exactly on a threshold that *)
(* binary64 cannot represent: there the outcome of the float operation is  *)
(* what is modelled (LandsAbove).                                          *)
(***************************************************************************)
EXTENDS Integers, Sequences, FiniteSets, TLC

(* ------------------------------ bounds -------------------------------- *)

\* At most this many metric fields are known in a record given to the analyzer.
MaxKnown == 2

\* Known amounts given to the analyzer range over -1 .. MaxAmount.
MaxAmount == 2

\* At most this many ratios are present in a RatioSet handed directly to
\* assess_risks (as the unit tests do).
MaxGiven == 1

\* A pdf has at most this many pages.
MaxPages == 2

\* A csv file or a workbook has at most this many rows.
MaxRows == 2

\* An xbrl file has at most this many tags.
MaxTags == 2

\* identify_trends is given at most this many periods.
MaxPeriods == 3

\* A RatioSet handed to PeerBenchmark.compare has at most this many ratios.
MaxCompared == 2

\* The longest run of digits in a cell handed to _to_number.
MaxDigits == 400

\* answer_question is called while the conversations hold fewer than this many
\* exchanges between them.
MaxExchanges == 11

(* ------------------------- Python value helpers ----------------------- *)

\* An optional amount is None or Some(v); V reads the amount of a known one.
None == << >>

Some(v) == << v >>

V(x) == x[1]

\* bool(x) for a number or None
Truthy(x) == x # None /\ V(x) # 0

\* a or b
Or(a, b) == IF Truthy(a) THEN a ELSE b

\* dict.get(key) / dict.get(key, default)
Get(d, k) == IF k \in DOMAIN d THEN d[k] ELSE None

GetOr(d, k, default) == IF k \in DOMAIN d THEN d[k] ELSE default

\* A rational with a positive denominator (den # 0 is the caller's duty).
Rat(n, d) == IF d < 0 THEN [num |-> 0 - n, den |-> 0 - d] ELSE [num |-> n, den |-> d]

RLt(a, b) == a.num * b.den < b.num * a.den

RGt(a, b) == RLt(b, a)

REq(a, b) == a.num * b.den = b.num * a.den

Whole(n) == Rat(n, 1)

(* --------------------------- metric record ---------------------------- *)

FINANCIAL_FIELDS ==
    << "revenue", "sales", "gross_profit", "operating_income", "net_income",
       "total_assets", "current_assets", "total_liabilities",
       "current_liabilities", "equity", "cash", "cash_equivalents",
       "inventory", "accounts_receivable", "operating_cash_flow",
       "investing_cash_flow", "financing_cash_flow", "free_cash_flow",
       "total_debt", "interest_expense" >>

Fields == { FINANCIAL_FIELDS[i] : i \in 1..Len(FINANCIAL_FIELDS) }

initialize_financial_data == [f \in Fields |-> None]

(* ----------------------------- ratio engine --------------------------- *)

\* The outcome of one ratio's block: omitted, or the division it performs.
Omitted == [ran |-> FALSE, num |-> 0, den |-> 1]

Division(n, d) == [ran |-> TRUE, num |-> n, den |-> d]

profit_margin_rule(revenue, net_income) ==
    IF Truthy(revenue) /\ Truthy(net_income) /\ V(revenue) > 0
    THEN Division(V(net_income) * 100, V(revenue)) ELSE Omitted

gross_margin_rule(revenue, gross_profit) ==
    IF Truthy(revenue) /\ Truthy(gross_profit) /\ V(revenue) > 0
    THEN Division(V(gross_profit) * 100, V(revenue)) ELSE Omitted

operating_margin_rule(revenue, operating_income) ==
    IF Truthy(revenue) /\ Truthy(operating_income) /\ V(revenue) > 0
    THEN Division(V(operating_income) * 100, V(revenue)) ELSE Omitted

roa_rule_unguarded(net_income, total_assets) ==
    IF Truthy(net_income) /\ Truthy(total_assets)
    THEN Division(V(net_income) * 100, V(total_assets)) ELSE Omitted

roa_rule(net_income, total_assets) ==
    IF Truthy(net_income) /\ Truthy(total_assets) /\ V(total_assets) > 0
    THEN Division(V(net_income) * 100, V(total_assets)) ELSE Omitted

roe_rule(net_income, equity) ==
    IF Truthy(net_income) /\ Truthy(equity) /\ V(equity) > 0
    THEN Division(V(net_income) * 100, V(equity)) ELSE Omitted

current_ratio_rule(current_assets, current_liabilities) ==
    IF Truthy(current_assets) /\ Truthy(current_liabilities) /\ V(current_liabilities) > 0
    THEN Division(V(current_assets), V(current_liabilities)) ELSE Omitted

quick_ratio_rule(current_assets, current_liabilities, inventory, accounts_receivable) ==
    IF Truthy(current_assets) /\ Truthy(current_liabilities) /\ V(current_liabilities) > 0
    THEN LET quick_assets ==
                 IF Truthy(inventory) THEN V(current_assets) - V(inventory)
                 ELSE IF Truthy(accounts_receivable)
                      THEN V(current_assets) - V(accounts_receivable)
                      ELSE V(current_assets)
         IN  Division(quick_assets, V(current_liabilities))
    ELSE Omitted

cash_ratio_rule(cash, current_liabilities) ==
    IF Truthy(cash) /\ Truthy(current_liabilities) /\ V(current_liabilities) > 0
    THEN Division(V(cash), V(current_liabilities)) ELSE Omitted

debt_to_asset_rule(total_assets, total_liabilities) ==
    IF Truthy(total_assets) /\ Truthy(total_liabilities) /\ V(total_assets) > 0
    THEN Division(V(total_liabilities) * 100, V(total_assets)) ELSE Omitted

equity_multiplier_rule(total_assets, equity) ==
    IF Truthy(total_assets) /\ Truthy(equity) /\ V(equity) > 0
    THEN Division(V(total_assets), V(equity)) ELSE Omitted

debt_to_equity_rule(total_liabilities, equity) ==
    IF Truthy(total_liabilities) /\ Truthy(equity) /\ V(equity) > 0
    THEN Division(V(total_liabilities) * 100, V(equity)) ELSE Omitted

interest_coverage_rule(operating_income, net_income, interest_expense) ==
    IF Truthy(operating_income) /\ Truthy(interest_expense) /\ V(interest_expense) > 0
    THEN Division(V(operating_income), V(interest_expense))
    ELSE IF Truthy(net_income) /\ Truthy(interest_expense) /\ V(interest_expense) > 0
         THEN Division(V(net_income) + V(interest_expense), V(interest_expense))
         ELSE Omitted

asset_turnover_rule(revenue, total_assets) ==
    IF Truthy(revenue) /\ Truthy(total_assets) /\ V(total_assets) > 0
    THEN Division(V(revenue), V(total_assets)) ELSE Omitted

\* estimated_cogs = revenue * 0.65
inventory_turnover_rule(revenue, inventory) ==
    IF Truthy(inventory) /\ V(inventory) > 0 /\ Truthy(revenue)
    THEN Division(V(revenue) * 65, V(inventory) * 100) ELSE Omitted

cash_flow_to_revenue_rule(operating_cash_flow, revenue) ==
    IF Truthy(operating_cash_flow) /\ Truthy(revenue) /\ V(revenue) > 0
    THEN Division(V(operating_cash_flow) * 100, V(revenue)) ELSE Omitted

\* A plain copy of free_cash_flow: no division is performed.
free_cash_flow_margin_rule(free_cash_flow) ==
    IF free_cash_flow # None THEN Division(V(free_cash_flow), 1) ELSE Omitted

RatioNames ==
    { "profit_margin", "gross_margin", "operating_margin", "roa", "roe",
      "current_ratio", "quick_ratio", "cash_ratio", "debt_to_asset_ratio",
      "equity_multiplier", "debt_to_equity_ratio", "interest_coverage",
      "asset_turnover", "inventory_turnover", "cash_flow_to_revenue",
      "free_cash_flow_margin" }

\* The block of calculate_ratios for each ratio name, on one metric record.
ratio_blocks(fd) ==
    LET revenue == Or(Get(fd, "revenue"), Get(fd, "sales"))
        net_income == Get(fd, "net_income")
        total_assets == Get(fd, "total_assets")
        total_liabilities == Get(fd, "total_liabilities")
        equity == Get(fd, "equity")
        current_assets == Get(fd, "current_assets")
        current_liabilities == Get(fd, "current_liabilities")
        cash == Or(Get(fd, "cash"), Get(fd, "cash_equivalents"))
        inventory == Get(fd, "inventory")
        accounts_receivable == Get(fd, "accounts_receivable")
        operating_cash_flow == Get(fd, "operating_cash_flow")
        interest_expense == Get(fd, "interest_expense")
        gross_profit == Get(fd, "gross_profit")
        operating_income == Get(fd, "operating_income")
    IN  [ profit_margin |-> profit_margin_rule(revenue, net_income),
          gross_margin |-> gross_margin_rule(revenue, gross_profit),
          operating_margin |-> operating_margin_rule(revenue, operating_income),
          roa |-> roa_rule(net_income, total_assets),
          roe |-> roe_rule(net_income, equity),
          current_ratio |-> current_ratio_rule(current_assets, current_liabilities),
          quick_ratio |-> quick_ratio_rule(current_assets, current_liabilities,
                                           inventory, accounts_receivable),
          cash_ratio |-> cash_ratio_rule(cash, current_liabilities),
          debt_to_asset_ratio |-> debt_to_asset_rule(total_assets, total_liabilities),
          equity_multiplier |-> equity_multiplier_rule(total_assets, equity),
          debt_to_equity_ratio |-> debt_to_equity_rule(total_liabilities, equity),
          interest_coverage |-> interest_coverage_rule(operating_income, net_income,
                                                       interest_expense),
          asset_turnover |-> asset_turnover_rule(revenue, total_assets),
          inventory_turnover |-> inventory_turnover_rule(revenue, inventory),
          cash_flow_to_revenue |-> cash_flow_to_revenue_rule(operating_cash_flow, revenue),
          free_cash_flow_margin |-> free_cash_flow_margin_rule(Get(fd, "free_cash_flow")) ]

\* The denominators of the divisions calculate_ratios performs on fd.
ratio_divisors(fd) ==
    LET b == ratio_blocks(fd)
    IN  { b[r].den : r \in { n \in RatioNames \ {"free_cash_flow_margin"} : b[n].ran } }

\* A division by zero raises ZeroDivisionError instead of returning.
calculate_ratios_raises(fd) == 0 \in ratio_divisors(fd)

\* The RatioSet: only the ratios whose block ran are keys.
calculate_ratios(fd) ==
    LET b == ratio_blocks(fd)
    IN  [ r \in { n \in RatioNames : b[n].ran } |-> Rat(b[r].num, b[r].den) ]

(* ----------------------------- risk assessor -------------------------- *)

\* One Risk dict; description names the message (the cited value is cited).
Risk(type, severity, description, cited) ==
    [type |-> type, severity |-> severity, description |-> description, cited |-> cited]

NoCite == << >>

Cite(r) == << r >>

\* profit_margin = ratios.get('profit_margin', 0): if / elif / elif
profitability_rule(ratios) ==
    LET profit_margin == GetOr(ratios, "profit_margin", Whole(0))
    IN  IF RLt(profit_margin, Whole(0))
        THEN << Risk("Loss Risk", "High", "Company is reporting net losses", NoCite) >>
        ELSE IF RLt(profit_margin, Whole(3))
        THEN << Risk("Profitability Risk", "High", "Profit margin is very low",
                     Cite(profit_margin)) >>
        ELSE IF RLt(profit_margin, Whole(5))
        THEN << Risk("Profitability Risk", "Medium", "Profit margin is below 5%",
                     Cite(profit_margin)) >>
        ELSE << >>

\* if net_income is not None and net_income < 0: unless a Loss Risk is in risks
net_income_rule_unconditional(financial_data, risks) ==
    LET net_income_value == Get(financial_data, "net_income")
    IN  IF net_income_value # None /\ V(net_income_value) < 0
        THEN << Risk("Loss Risk", "High", "Net income is negative", NoCite) >>
        ELSE << >>

net_income_rule(financial_data, risks) ==
    LET net_income_value == Get(financial_data, "net_income")
    IN  IF net_income_value # None /\ V(net_income_value) < 0
        THEN IF ~ \E i \in 1..Len(risks) : risks[i].type = "Loss Risk"
             THEN << Risk("Loss Risk", "High", "Net income is negative", NoCite) >>
             ELSE << >>
        ELSE << >>

roa_risk_rule(ratios) ==
    LET roa == GetOr(ratios, "roa", Whole(0))
    IN  IF RLt(roa, Whole(0))
        THEN << Risk("Asset Efficiency Risk", "High", "Negative return on assets", NoCite) >>
        ELSE IF RLt(roa, Whole(2))
        THEN << Risk("Asset Efficiency Risk", "Medium", "Return on assets is below 2%",
                     Cite(roa)) >>
        ELSE << >>

roe_risk_rule(ratios) ==
    LET roe == GetOr(ratios, "roe", Whole(0))
    IN  IF RLt(roe, Whole(0))
        THEN << Risk("Shareholder Value Risk", "High", "Negative return on equity", NoCite) >>
        ELSE IF RLt(roe, Whole(5))
        THEN << Risk("Shareholder Value Risk", "Medium", "Return on equity is below 5%",
                     Cite(roe)) >>
        ELSE << >>

\* The current ratio rule with two independent ifs in place of if / elif.
current_ratio_risk_rule_each_tier(ratios) ==
    LET current_ratio == GetOr(ratios, "current_ratio", Whole(0))
    IN  (IF RLt(current_ratio, Whole(1))
         THEN << Risk("Liquidity Risk", "High", "Current ratio is below 1",
                      Cite(current_ratio)) >>
         ELSE << >>)
        \o
        (IF RLt(current_ratio, Rat(3, 2))
         THEN << Risk("Liquidity Risk", "Medium", "Current ratio is below 1.5",
                      Cite(current_ratio)) >>
         ELSE << >>)

current_ratio_risk_rule(ratios) ==
    LET current_ratio == GetOr(ratios, "current_ratio", Whole(0))
    IN  IF RLt(current_ratio, Whole(1))
        THEN << Risk("Liquidity Risk", "High", "Current ratio is below 1",
                     Cite(current_ratio)) >>
        ELSE IF RLt(current_ratio, Rat(3, 2))
        THEN << Risk("Liquidity Risk", "Medium", "Current ratio is below 1.5",
                     Cite(current_ratio)) >>
        ELSE << >>

quick_ratio_risk_rule(ratios) ==
    LET quick_ratio == GetOr(ratios, "quick_ratio", Whole(0))
    IN  IF RLt(quick_ratio, Rat(1, 2))
        THEN << Risk("Liquidity Risk", "High", "Quick ratio is very low",
                     Cite(quick_ratio)) >>
        ELSE IF RLt(quick_ratio, Whole(1))
        THEN << Risk("Liquidity Risk", "Medium", "Quick ratio is below 1",
                     Cite(quick_ratio)) >>
        ELSE << >>

debt_to_asset_risk_rule_inclusive(ratios) ==
    LET debt_to_asset == GetOr(ratios, "debt_to_asset_ratio", Whole(0))
    IN  IF ~ RLt(debt_to_asset, Whole(70))
        THEN << Risk("Leverage Risk", "High", "Debt-to-asset ratio exceeds 70%",
                     Cite(debt_to_asset)) >>
        ELSE IF RGt(debt_to_asset, Whole(60))
        THEN << Risk("Leverage Risk", "Medium", "Debt-to-asset ratio exceeds 60%",
                     Cite(debt_to_asset)) >>
        ELSE << >>

debt_to_asset_risk_rule(ratios) ==
    LET debt_to_asset == GetOr(ratios, "debt_to_asset_ratio", Whole(0))
    IN  IF RGt(debt_to_asset, Whole(70))
        THEN << Risk("Leverage Risk", "High", "Debt-to-asset ratio exceeds 70%",
                     Cite(debt_to_asset)) >>
        ELSE IF RGt(debt_to_asset, Whole(60))
        THEN << Risk("Leverage Risk", "Medium", "Debt-to-asset ratio exceeds 60%",
                     Cite(debt_to_asset)) >>
        ELSE << >>

debt_to_equity_risk_rule(ratios) ==
    LET debt_to_equity == GetOr(ratios, "debt_to_equity_ratio", Whole(0))
    IN  IF RGt(debt_to_equity, Whole(200))
        THEN << Risk("Leverage Risk", "High", "Debt-to-equity ratio is very high",
                     Cite(debt_to_equity)) >>
        ELSE IF RGt(debt_to_equity, Whole(100))
        THEN << Risk("Leverage Risk", "Medium", "Debt-to-equity ratio is high",
                     Cite(debt_to_equity)) >>
        ELSE << >>

\* interest_coverage = ratios.get('interest_coverage', None): tested for presence
interest_coverage_risk_rule(ratios) ==
    IF "interest_coverage" \in DOMAIN ratios
    THEN LET interest_coverage == ratios["interest_coverage"]
         IN  IF RLt(interest_coverage, Whole(1))
             THEN << Risk("Solvency Risk", "High", "Interest coverage ratio is below 1",
                          Cite(interest_coverage)) >>
             ELSE IF RLt(interest_coverage, Whole(2))
             THEN << Risk("Solvency Risk", "Medium", "Interest coverage ratio is low",
                          Cite(interest_coverage)) >>
             ELSE << >>
    ELSE << >>

cash_flow_risk_rules(financial_data) ==
    LET operating_cash_flow == Get(financial_data, "operating_cash_flow")
        free_cash_flow == Get(financial_data, "free_cash_flow")
    IN  (IF operating_cash_flow # None /\ V(operating_cash_flow) < 0
         THEN << Risk("Cash Flow Risk", "High", "Negative operating cash flow", NoCite) >>
         ELSE << >>)
        \o
        (IF free_cash_flow # None /\ V(free_cash_flow) < 0
         THEN << Risk("Cash Flow Risk", "Medium", "Negative free cash flow", NoCite) >>
         ELSE << >>)

assess_risks(financial_data, ratios) ==
    LET r1 == profitability_rule(ratios)
        r2 == r1 \o net_income_rule(financial_data, r1)
    IN  r2 \o roa_risk_rule(ratios) \o roe_risk_rule(ratios)
           \o current_ratio_risk_rule(ratios) \o quick_ratio_risk_rule(ratios)
           \o debt_to_asset_risk_rule(ratios) \o debt_to_equity_risk_rule(ratios)
           \o interest_coverage_risk_rule(ratios)
           \o cash_flow_risk_rules(financial_data)

(* ------------------------------ str helpers --------------------------- *)

Char(s, i) == SubSeq(s, i, i)

Digits == { "0", "1", "2", "3", "4", "5", "6", "7", "8", "9" }

IsDigit(c) == c \in Digits

DigitVal(c) ==
    CASE c = "0" -> 0 [] c = "1" -> 1 [] c = "2" -> 2 [] c = "3" -> 3 [] c = "4" -> 4
      [] c = "5" -> 5 [] c = "6" -> 6 [] c = "7" -> 7 [] c = "8" -> 8 [] c = "9" -> 9

\* \s of the re module, and the characters str.strip() removes
Whitespace == { " ", "\t", "\n", "\r", "\f" }

UpperToLower ==
    [ c \in { "A", "B", "C", "D", "E", "F", "G", "H", "I", "J", "K", "L", "M", "N",
              "O", "P", "Q", "R", "S", "T", "U", "V", "W", "X", "Y", "Z" } |->
      CASE c = "A" -> "a" [] c = "B" -> "b" [] c = "C" -> "c" [] c = "D" -> "d"
        [] c = "E" -> "e" [] c = "F" -> "f" [] c = "G" -> "g" [] c = "H" -> "h"
        [] c = "I" -> "i" [] c = "J" -> "j" [] c = "K" -> "k" [] c = "L" -> "l"
        [] c = "M" -> "m" [] c = "N" -> "n" [] c = "O" -> "o" [] c = "P" -> "p"
        [] c = "Q" -> "q" [] c = "R" -> "r" [] c = "S" -> "s" [] c = "T" -> "t"
        [] c = "U" -> "u" [] c = "V" -> "v" [] c = "W" -> "w" [] c = "X" -> "x"
        [] c = "Y" -> "y" [] c = "Z" -> "z" ]

\* str.lower(), halving the string to keep the recursion shallow
RECURSIVE Lower(_)
Lower(s) ==
    IF Len(s) = 0 THEN ""
    ELSE IF Len(s) = 1 THEN (IF s \in DOMAIN UpperToLower THEN UpperToLower[s] ELSE s)
    ELSE LET h == Len(s) \div 2
         IN  Lower(SubSeq(s, 1, h)) \o Lower(SubSeq(s, h + 1, Len(s)))

\* str.strip()
Strip(s) ==
    LET inked == { i \in 1..Len(s) : Char(s, i) \notin Whitespace }
    IN  IF inked = {} THEN ""
        ELSE SubSeq(s, CHOOSE i \in inked : \A j \in inked : i <= j,
                       CHOOSE i \in inked : \A j \in inked : i >= j)

\* s[i:].startswith(w), i counted from 1
StartsAt(s, i, w) == i + Len(w) - 1 <= Len(s) /\ SubSeq(s, i, i + Len(w) - 1) = w

\* w in s
Contains(s, w) == \E i \in 1..(Len(s) + 1) : StartsAt(s, i, w)

\* The first position from i on where w starts in s, or 0.
Find(s, w, i) ==
    LET hits == { j \in i..Len(s) : StartsAt(s, j, w) }
    IN  IF hits = {} THEN 0 ELSE CHOOSE j \in hits : \A k \in hits : j <= k

\* s.replace(w, ""), w not empty: the occurrences are removed left to right
RECURSIVE RemoveAll(_, _)
RemoveAll(s, w) ==
    LET j == Find(s, w, 1)
    IN  IF j = 0 THEN s
        ELSE SubSeq(s, 1, j - 1) \o RemoveAll(SubSeq(s, j + Len(w), Len(s)), w)

\* re.sub of every character outside keep by ""
RECURSIVE KeepOnly(_, _)
KeepOnly(s, keep) ==
    IF Len(s) = 0 THEN ""
    ELSE IF Len(s) = 1 THEN (IF s \in keep THEN s ELSE "")
    ELSE LET h == Len(s) \div 2
         IN  KeepOnly(SubSeq(s, 1, h), keep) \o KeepOnly(SubSeq(s, h + 1, Len(s)), keep)

\* s.split(sep) for a one-character sep
RECURSIVE Split(_, _)
Split(s, sep) ==
    LET j == Find(s, sep, 1)
    IN  IF j = 0 THEN << s >>
        ELSE << SubSeq(s, 1, j - 1) >> \o Split(SubSeq(s, j + 1, Len(s)), sep)

\* The value of a run of decimal digits.
RECURSIVE DigitsValue(_)
DigitsValue(s) ==
    IF Len(s) = 0 THEN 0
    ELSE DigitsValue(SubSeq(s, 1, Len(s) - 1)) * 10 + DigitVal(Char(s, Len(s)))

\* The end of the run of characters of set that starts at i (i - 1 if none).
RunEnd(s, i, set) ==
    LET stops == { j \in i..Len(s) : Char(s, j) \notin set }
    IN  IF stops = {} THEN Len(s) ELSE (CHOOSE j \in stops : \A k \in stops : j <= k) - 1

DigitRunEnd(s, i) == RunEnd(s, i, Digits)

\* float() of digits [ "." digits ] as an amount in hundredths; the third and
\* later decimals are dropped (no input of the model has them).
DecimalAmount(s) ==
    LET e == DigitRunEnd(s, 1)
        frac == IF e < Len(s) THEN SubSeq(s, e + 2, Len(s)) ELSE ""
        cents == IF Len(frac) = 0 THEN 0
                 ELSE IF Len(frac) = 1 THEN DigitsValue(frac) * 10
                 ELSE DigitsValue(SubSeq(frac, 1, 2))
    IN  DigitsValue(SubSeq(s, 1, e)) * 100 + cents

(* ---------------------------- text adapter ---------------------------- *)

\* patterns: per field, in dict order, the regexes in list order; a regex is
\* the list of its literal words, which \s+ separates.
patterns ==
    << << "revenue", << <<"revenue">>, <<"total", "revenue">>, <<"sales", "revenue">>,
                        <<"net", "sales">> >> >>,
       << "sales", << <<"net", "sales">>, <<"total", "sales">>, <<"sales">> >> >>,
       << "gross_profit", << <<"gross", "profit">>, <<"gross", "income">> >> >>,
       << "operating_income", << <<"operating", "income">>, <<"operating", "profit">>,
                                 <<"ebit">> >> >>,
       << "net_income", << <<"net", "income">>, <<"net", "profit">>,
                           <<"profit", "after", "tax">> >> >>,
       << "total_assets", << <<"total", "assets">>, <<"assets", "total">> >> >>,
       << "current_assets", << <<"current", "assets">>,
                               <<"total", "current", "assets">> >> >>,
       << "total_liabilities", << <<"total", "liabilities">>,
                                  <<"liabilities", "total">> >> >>,
       << "current_liabilities", << <<"current", "liabilities">>,
                                    <<"total", "current", "liabilities">> >> >>,
       << "equity", << <<"total", "equity">>, <<"shareholders", "equity">>,
                       <<"stockholders", "equity">>, <<"equity">> >> >>,
       << "cash", << <<"cash", "and", "cash", "equivalents">>, <<"cash">> >> >>,
       << "inventory", << <<"inventory">>, <<"inventories">> >> >>,
       << "accounts_receivable", << <<"accounts", "receivable">>, <<"receivables">> >> >>,
       << "operating_cash_flow", << <<"operating", "activities">>,
                                    <<"cash", "from", "operations">>,
                                    <<"operating", "cash", "flow">> >> >>,
       << "investing_cash_flow", << <<"investing", "activities">>,
                                    <<"cash", "from", "investing">> >> >>,
       << "financing_cash_flow", << <<"financing", "activities">>,
                                    <<"cash", "from", "financing">> >> >>,
       << "total_debt", << <<"total", "debt">>, <<"long", "term", "debt">>,
                           <<"short", "term", "debt">> >> >>,
       << "interest_expense", << <<"interest", "expense">>, <<"interest", "paid">> >> >> >>

\* The end of the run of whitespace that starts at i (i - 1 if there is none).
SpaceRunEnd(s, i) == RunEnd(s, i, Whitespace)

\* The regex words[k..] matches s at position i.
RECURSIVE MatchWordsAt(_, _, _, _)
MatchWordsAt(words, k, s, i) ==
    /\ StartsAt(s, i, words[k])
    /\ \/ k = Len(words)
       \/ LET j == i + Len(words[k])
              e == SpaceRunEnd(s, j)
          IN  e >= j /\ MatchWordsAt(words, k + 1, s, e + 1)

\* re.search(pattern, s)
re_search(words, s) == \E i \in 1..Len(s) : MatchWordsAt(words, 1, s, i)

\* The end of the longest run of ",ddd" groups that starts at i (i - 1 if none).
RECURSIVE GroupRunEnd(_, _)
GroupRunEnd(s, i) ==
    IF /\ i + 3 <= Len(s)
       /\ Char(s, i) = ","
       /\ \A k \in 1..3 : IsDigit(Char(s, i + k))
    THEN GroupRunEnd(s, i + 4) ELSE i - 1

\* re.findall(r'\d+(?:,\d{3})*(?:\.\d+)?', text) from position i on, each match
\* converted by float(n.replace(',', ''))
RECURSIVE ExtractNumbersFrom(_, _)
ExtractNumbersFrom(text, from) ==
    LET starts == { j \in from..Len(text) : IsDigit(Char(text, j)) }
    IN  IF starts = {} THEN << >>
        ELSE LET i == CHOOSE j \in starts : \A k \in starts : j <= k
                 e1 == DigitRunEnd(text, i)
                 e2 == GroupRunEnd(text, e1 + 1)
                 e3 == IF e2 + 2 <= Len(text) /\ Char(text, e2 + 1) = "."
                          /\ IsDigit(Char(text, e2 + 2))
                       THEN DigitRunEnd(text, e2 + 2) ELSE e2
             IN  << DecimalAmount(RemoveAll(SubSeq(text, i, e3), ",")) >>
                 \o ExtractNumbersFrom(text, e3 + 1)

\* The numbers of a text taking the sign written in it: negative after a
\* minus sign or inside parentheses.
_extract_numbers_signed(text) ==
    [i \in 1..Len(ExtractNumbersFrom(text, 1)) |->
        IF Contains(text, "-") \/ Contains(text, "(")
        THEN 0 - ExtractNumbersFrom(text, 1)[i] ELSE ExtractNumbersFrom(text, 1)[i]]

_extract_numbers(text) ==
    ExtractNumbersFrom(text, 1)

\* One field on one line: the first pattern that matches the lowered line and
\* finds numbers sets the field to the last number of the line.
RECURSIVE ScanPatterns(_, _, _)
ScanPatterns(pattern_list, k, line) ==
    IF k > Len(pattern_list) THEN None
    ELSE IF re_search(pattern_list[k], Lower(line)) /\ _extract_numbers(line) # << >>
         THEN LET numbers == _extract_numbers(line) IN Some(numbers[Len(numbers)])
         ELSE ScanPatterns(pattern_list, k + 1, line)

\* The regexes of one field; a field without an entry has none.
pattern_list_of(key) ==
    IF \E k \in 1..Len(patterns) : patterns[k][1] = key
    THEN patterns[CHOOSE k \in 1..Len(patterns) : patterns[k][1] = key][2]
    ELSE << >>

\* for key, pattern_list in patterns.items(): a field that is already set is
\* skipped, any other is scanned on this line; no field reads another.
ScanLine(fd, line) ==
    [key \in Fields |->
        IF fd[key] # None THEN fd[key] ELSE ScanPatterns(pattern_list_of(key), 1, line)]

\* for line in lines
RECURSIVE ScanLines(_, _, _)
ScanLines(fd, lines, n) ==
    IF n > Len(lines) THEN fd ELSE ScanLines(ScanLine(fd, lines[n]), lines, n + 1)

extract_financial_data(text_data) ==
    LET scanned == ScanLines([f \in Fields |-> None], Split(text_data, "\n"), 1)
        with_revenue ==
            IF scanned["revenue"] = None /\ scanned["sales"] # None
            THEN [scanned EXCEPT !["revenue"] = scanned["sales"]] ELSE scanned
    IN  IF with_revenue["operating_cash_flow"] # None
           /\ with_revenue["investing_cash_flow"] # None
        THEN [with_revenue EXCEPT !["free_cash_flow"] =
                 Some(V(with_revenue["operating_cash_flow"])
                      + V(with_revenue["investing_cash_flow"]))]
        ELSE with_revenue

(* ------------------------- numeric normalizer ------------------------- *)

\* A cell of a row or the value of a tag, by its Python type: a str, a finite
\* int or float (n in hundredths), a NaN or infinite float, None, an object
\* of any other type (a list, a date), or an int beyond the floats.
StrCell(s) == [t |-> "str", s |-> s, n |-> 0]

NumCell(n) == [t |-> "num", s |-> "", n |-> n]

NanCell == [t |-> "nan", s |-> "", n |-> 0]

NoneCell == [t |-> "none", s |-> "", n |-> 0]

OtherCell == [t |-> "other", s |-> "", n |-> 0]

\* An int too large for a float (10 ** 400)
HugeIntCell == [t |-> "hugeint", s |-> "", n |-> 0]

\* float('inf'): an amount beyond every amount of the model
Infinity == 2147483647

\* The least integer float() reads as inf, 2 ** 1024 - 2 ** 970: half an ulp
\* above the largest finite float, where the tie rounds away from it.
FloatOverflowThreshold ==
    "179769313486231580793728971405303415079934132710037826936173"
    \o "778980444968292764750946649017977587207096330286416692887910"
    \o "946555547851940402630657488671505820681908902000708383676273"
    \o "854845817711531764475730270069855571366959622842914819860834"
    \o "936475292719074168444365510704342711559699508093042880177904"
    \o "174497792"

\* a >= b for two runs of digits of the same length
DigitsAtLeast(a, b) ==
    LET differ == { i \in 1..Len(a) : Char(a, i) # Char(b, i) }
    IN  \/ differ = {}
        \/ LET i == CHOOSE i \in differ : \A j \in differ : i <= j
           IN  DigitVal(Char(a, i)) > DigitVal(Char(b, i))

\* Whether digits [ "." digits ] is too large for a finite float.
float_overflows(body) ==
    LET e == DigitRunEnd(body, 1)
        significant == { i \in 1..e : Char(body, i) # "0" }
        whole == IF significant = {} THEN ""
                 ELSE SubSeq(body, CHOOSE i \in significant : \A j \in significant : i <= j, e)
    IN  \/ Len(whole) > Len(FloatOverflowThreshold)
        \/ /\ Len(whole) = Len(FloatOverflowThreshold)
           /\ DigitsAtLeast(whole, FloatOverflowThreshold)

\* float(cleaned) for a string over [0-9.-]: an optional leading minus, then
\* digits with at most one point and at least one digit; None is ValueError.
float_of(cleaned) ==
    LET neg == StartsAt(cleaned, 1, "-")
        body == IF neg THEN SubSeq(cleaned, 2, Len(cleaned)) ELSE cleaned
        points == { i \in 1..Len(body) : Char(body, i) = "." }
    IN  IF /\ \A i \in 1..Len(body) : Char(body, i) \in Digits \cup { "." }
           /\ Cardinality(points) <= 1
           /\ \E i \in 1..Len(body) : IsDigit(Char(body, i))
        THEN Some((IF neg THEN -1 ELSE 1)
                  * (IF float_overflows(body) THEN Infinity ELSE DecimalAmount(body)))
        ELSE None

\* float(value) of an int beyond the floats raises OverflowError.
_to_number_raises(value) == value.t = "hugeint"

_to_number(value) ==
    IF value.t = "none" THEN None
    ELSE IF value.t = "num" THEN Some(value.n)
    ELSE IF value.t = "nan" THEN None
    ELSE IF value.t = "str"
    THEN LET stripped == Strip(value.s)
             negative == /\ StartsAt(stripped, 1, "(")
                         /\ Char(stripped, Len(stripped)) = ")"
             unwrapped == IF negative THEN SubSeq(stripped, 2, Len(stripped) - 1)
                          ELSE stripped
             replaced == RemoveAll(RemoveAll(RemoveAll(RemoveAll(unwrapped,
                             ","), "$"), "%"), "USD")
             cleaned == KeepOnly(Strip(replaced), Digits \cup { ".", "-" })
             number == float_of(cleaned)
         IN  IF stripped = "" THEN None
             ELSE IF cleaned = "" \/ cleaned = "-" THEN None
             ELSE IF number = None THEN None
             ELSE IF negative THEN Some(0 - V(number)) ELSE number
    ELSE None

(* --------------------------- keyword mapping -------------------------- *)

\* KEYWORD_MAP in dict order: per field, its keywords in list order.
KEYWORD_MAP ==
    << << "revenue", << "revenue", "sales", "total revenue", "net sales" >> >>,
       << "sales", << "sales", "net sales" >> >>,
       << "gross_profit", << "gross profit", "gross income" >> >>,
       << "operating_income", << "operating income", "operating profit", "ebit" >> >>,
       << "net_income", << "net income", "net profit", "profit after tax" >> >>,
       << "total_assets", << "total assets", "assets total" >> >>,
       << "current_assets", << "current assets", "total current assets" >> >>,
       << "total_liabilities", << "total liabilities", "liabilities total" >> >>,
       << "current_liabilities", << "current liabilities",
                                    "total current liabilities" >> >>,
       << "equity", << "total equity", "shareholders equity",
                       "stockholders equity" >> >>,
       << "cash", << "cash and cash equivalents", "cash" >> >>,
       << "cash_equivalents", << "cash equivalents" >> >>,
       << "inventory", << "inventory", "inventories" >> >>,
       << "accounts_receivable", << "accounts receivable", "receivables" >> >>,
       << "operating_cash_flow", << "cash from operations", "operating cash flow",
                                    "operating activities" >> >>,
       << "investing_cash_flow", << "investing activities", "cash from investing" >> >>,
       << "financing_cash_flow", << "financing activities", "cash from financing" >> >>,
       << "total_debt", << "total debt", "long term debt", "short term debt" >> >>,
       << "interest_expense", << "interest expense", "interest paid" >> >>,
       << "free_cash_flow", << "free cash flow" >> >> >>

ROW_LABEL_KEYS ==
    { "metric", "item", "description", "account", "name", "line", "category" }

\* The least element of a non-empty set of integers.
Least(S) == CHOOSE i \in S : \A j \in S : i <= j

\* The first field, in dict order, one of whose keywords occurs in the text;
\* Some(field) or None.
_match_keyword(text) ==
    LET text_lower == Lower(Strip(text))
        hits == { k \in 1..Len(KEYWORD_MAP) :
                    \E j \in 1..Len(KEYWORD_MAP[k][2]) :
                        Contains(text_lower, KEYWORD_MAP[k][2][j]) }
    IN  IF hits = {} THEN None ELSE Some(KEYWORD_MAP[Least(hits)][1])

(* --------------------------- tabular adapter -------------------------- *)

\* A row is a dict, given by its items (key, cell) in insertion order, or an
\* object that is not a dict.
DictRow(items) == [is_dict |-> TRUE, items |-> items]

NotADictRow == [is_dict |-> FALSE, items |-> << >>]

\* row.get(key)
row_get(items, key) ==
    LET at == { j \in 1..Len(items) : items[j][1] = key }
    IN  IF at = {} THEN NoneCell ELSE items[Least(at)][2]

\* numeric_candidates[0] over the keys outside excluded, or None when the
\* list of candidates is empty.
first_numeric_candidate(items, excluded) ==
    LET at == { j \in 1..Len(items) :
                  items[j][1] \notin excluded /\ _to_number(items[j][2]) # None }
    IN  IF at = {} THEN None ELSE _to_number(items[Least(at)][2])

\* The first pass writing a field whether or not it is set.
RECURSIVE first_pass_overwriting(_, _, _)
first_pass_overwriting(fd, items, i) ==
    IF i > Len(items) THEN fd
    ELSE LET field == _match_keyword(items[i][1])
             numeric_value == _to_number(items[i][2])
         IN  first_pass_overwriting(IF field # None /\ numeric_value # None
                                    THEN [fd EXCEPT ![V(field)] = numeric_value] ELSE fd,
                                    items, i + 1)

\* First pass: column headers that name a field.
RECURSIVE first_pass(_, _, _)
first_pass(fd, items, i) ==
    IF i > Len(items) THEN fd
    ELSE LET field == _match_keyword(items[i][1])
             numeric_value == _to_number(items[i][2])
         IN  first_pass(IF field # None /\ numeric_value # None /\ fd[V(field)] = None
                        THEN [fd EXCEPT ![V(field)] = numeric_value] ELSE fd,
                        items, i + 1)

\* Second pass: a str cell that names a field, valued by the row's other cells.
RECURSIVE second_pass(_, _, _)
second_pass(fd, items, i) ==
    IF i > Len(items) THEN fd
    ELSE LET value == items[i][2]
             field == IF value.t = "str" THEN _match_keyword(value.s) ELSE None
             candidate == first_numeric_candidate(items, { items[i][1] })
         IN  second_pass(IF field # None /\ fd[V(field)] = None /\ candidate # None
                         THEN [fd EXCEPT ![V(field)] = candidate] ELSE fd,
                         items, i + 1)

\* Third pass: the cell under the first label key, in the iteration order of
\* the set ROW_LABEL_KEYS, that the row has.
third_pass(fd, items, label_order) ==
    LET present == { k \in 1..Len(label_order) :
                        \E j \in 1..Len(items) : items[j][1] = label_order[k] }
        label_value == IF present = {} THEN NoneCell
                       ELSE row_get(items, label_order[Least(present)])
        field == IF label_value.t = "str" THEN _match_keyword(label_value.s) ELSE None
        candidate == first_numeric_candidate(items, ROW_LABEL_KEYS)
    IN  IF field # None /\ fd[V(field)] = None /\ candidate # None
        THEN [fd EXCEPT ![V(field)] = candidate] ELSE fd

\* for row in rows
RECURSIVE scan_rows(_, _, _, _)
scan_rows(fd, rows, n, label_order) ==
    IF n > Len(rows) THEN fd
    ELSE IF ~ rows[n].is_dict THEN scan_rows(fd, rows, n + 1, label_order)
    ELSE scan_rows(third_pass(second_pass(first_pass(fd, rows[n].items, 1),
                                          rows[n].items, 1),
                              rows[n].items, label_order),
                   rows, n + 1, label_order)

\* The derivation storing its result under a key of its own.
derive_free_cash_flow_under_fcf(fd) ==
    [k \in DOMAIN fd \cup { "fcf" } |->
        IF k # "fcf" THEN fd[k]
        ELSE IF fd["operating_cash_flow"] # None /\ fd["investing_cash_flow"] # None
        THEN Some(V(fd["operating_cash_flow"]) + V(fd["investing_cash_flow"]))
        ELSE None]

\* free_cash_flow = operating_cash_flow + investing_cash_flow when it is
\* still None and both are known.
derive_free_cash_flow(fd) ==
    IF /\ fd["free_cash_flow"] = None
       /\ fd["operating_cash_flow"] # None
       /\ fd["investing_cash_flow"] # None
    THEN [fd EXCEPT !["free_cash_flow"] =
             Some(V(fd["operating_cash_flow"]) + V(fd["investing_cash_flow"]))]
    ELSE fd

\* The concatenation of a sequence of sequences.
RECURSIVE Concat(_)
Concat(seqs) == IF seqs = << >> THEN << >> ELSE Head(seqs) \o Concat(Tail(seqs))

\* A parsed document: its type, then the payload of that type (the page
\* texts of a pdf, the sheets of a workbook, the rows of a csv, the
\* tag/value pairs of an xbrl file); empty marks a falsy document.
ParsedDoc(type, pages, sheets, data) ==
    [empty |-> FALSE, type |-> type, pages |-> pages, sheets |-> sheets, data |-> data]

EmptyDoc == [empty |-> TRUE, type |-> "", pages |-> << >>, sheets |-> << >>, data |-> << >>]

extract_from_structured_data(parsed_doc, label_order) ==
    IF parsed_doc.empty THEN initialize_financial_data
    ELSE IF parsed_doc.type = "excel"
    THEN derive_free_cash_flow(scan_rows(initialize_financial_data,
                                         Concat(parsed_doc.sheets), 1, label_order))
    ELSE IF parsed_doc.type = "csv"
    THEN derive_free_cash_flow(scan_rows(initialize_financial_data,
                                         parsed_doc.data, 1, label_order))
    ELSE initialize_financial_data

(* ----------------------------- tag adapter ---------------------------- *)

\* {str(k).lower(): v for k, v in xbrl_data.items()}: a key that comes again
\* keeps its place and takes the later value.
RECURSIVE normalized_data(_, _, _)
normalized_data(acc, items, i) ==
    IF i > Len(items) THEN acc
    ELSE LET key == Lower(items[i][1])
             at == { j \in 1..Len(acc) : acc[j][1] = key }
         IN  normalized_data(IF at = {} THEN Append(acc, << key, items[i][2] >>)
                             ELSE [acc EXCEPT ![Least(at)] = << key, items[i][2] >>],
                             items, i + 1)

\* The candidates of one tag: the entries whose compact key contains the
\* compact tag and whose value converts to a number.
tag_candidates(tag, normalized) ==
    { k \in 1..Len(normalized) :
        /\ Contains(RemoveAll(normalized[k][1], " "), Lower(RemoveAll(tag, " ")))
        /\ _to_number(normalized[k][2]) # None }

\* for tag in tags: the first tag with a candidate sets the field to the
\* first candidate's number.
xbrl_field(tags, normalized) ==
    LET found == { j \in 1..Len(tags) : tag_candidates(tags[j], normalized) # {} }
    IN  IF found = {} THEN None
        ELSE _to_number(normalized[Least(tag_candidates(tags[Least(found)],
                                                        normalized))][2])

extract_from_xbrl(parsed_doc) ==
    IF parsed_doc.empty \/ parsed_doc.data = << >> THEN initialize_financial_data
    ELSE LET normalized == normalized_data(<< >>, parsed_doc.data, 1)
         IN  derive_free_cash_flow(
                 [field \in Fields |->
                     xbrl_field(KEYWORD_MAP[CHOOSE k \in 1..Len(KEYWORD_MAP) :
                                               KEYWORD_MAP[k][1] = field][2],
                                normalized)])

build_cash_flow_summary(fd) ==
    [operating |-> Get(fd, "operating_cash_flow"),
     investing |-> Get(fd, "investing_cash_flow"),
     financing |-> Get(fd, "financing_cash_flow"),
     free_cash_flow |-> Get(fd, "free_cash_flow")]

(* ----------------------------- trend analyzer ------------------------- *)

\* d[k] = v on a dict
Put(d, k, v) == [x \in DOMAIN d \cup { k } |-> IF x = k THEN v ELSE d[x]]

Abs(n) == IF n < 0 THEN 0 - n ELSE n

\* The integer nearest to n / d for d > 0, a tie going to the even one.
RoundHalfEven(n, d) ==
    LET q == n \div d
        r == n % d
    IN  IF 2 * r < d THEN q
        ELSE IF 2 * r > d THEN q + 1
        ELSE IF q % 2 = 0 THEN q ELSE q + 1

\* round(n / d, 2), as a rational over 100
Round2(n, d) ==
    IF d < 0 THEN Rat(RoundHalfEven((0 - n) * 100, 0 - d), 100)
    ELSE Rat(RoundHalfEven(n * 100, d), 100)

\* x if x else 0, for an optional amount
OrZero(x) == IF Truthy(x) THEN V(x) ELSE 0

\* ((last / first) ** (1 / years) - 1) * 100 rounded to 2 decimals; the root is
\* kept as an expression: its base and its index.
Cagr(last, first, years) == [base |-> Rat(last, first), years |-> years]

revenue_values(historical_data) ==
    [i \in 1..Len(historical_data) |->
        OrZero(Or(Get(historical_data[i], "revenue"), Get(historical_data[i], "sales")))]

net_income_values(historical_data) ==
    [i \in 1..Len(historical_data) |-> OrZero(Get(historical_data[i], "net_income"))]

total_assets_values(historical_data) ==
    [i \in 1..Len(historical_data) |-> OrZero(Get(historical_data[i], "total_assets"))]

\* period_data.get('period', f'Period {i+1}')
period_labels(historical_data) ==
    [i \in 1..Len(historical_data) |->
        IF "period" \in DOMAIN historical_data[i] THEN << historical_data[i]["period"] >>
        ELSE << "Period", i >>]

\* The dict identify_trends starts from.
empty_trends ==
    [revenue_trend |-> None, profit_trend |-> None, asset_trend |-> None,
     revenue_growth_rate |-> None, profit_growth_rate |-> None,
     asset_growth_rate |-> None, periods |-> << >>, revenue_values |-> << >>,
     net_income_values |-> << >>, total_assets_values |-> << >>]

InsufficientData == "Insufficient data for trend analysis. Need at least 2 periods."

direction(total_growth_num) == IF total_growth_num > 0 THEN "increasing" ELSE "decreasing"

\* The revenue block giving a CAGR for any number of periods.
revenue_block_with_cagr(t, revenues) ==
    LET n == Len(revenues)
        first == revenues[1]
        last == revenues[n]
    IN  IF first > 0
        THEN Put([t EXCEPT !.revenue_trend = Some(direction(last - first)),
                           !.revenue_growth_rate =
                               Some(Round2((last - first) * 100, first))],
                 "revenue_cagr", Some(Cagr(last, first, n - 1)))
        ELSE t

\* The revenue block: trend and growth rate when the first value is > 0, and
\* the CAGR with more than two periods.
revenue_block(t, revenues) ==
    LET n == Len(revenues)
        first == revenues[1]
        last == revenues[n]
        t1 == [t EXCEPT !.revenue_trend = Some(direction(last - first)),
                        !.revenue_growth_rate = Some(Round2((last - first) * 100, first))]
    IN  IF first > 0
        THEN IF n > 2 THEN Put(t1, "revenue_cagr", Some(Cagr(last, first, n - 1))) ELSE t1
        ELSE t

\* The profit block: the growth is taken over abs(first); with a first value of
\* 0 only the direction is set.
profit_block(t, profits) ==
    LET first == profits[1]
        last == profits[Len(profits)]
    IN  IF first # 0
        THEN [t EXCEPT !.profit_trend = Some(direction(last - first)),
                       !.profit_growth_rate = Some(Round2((last - first) * 100, Abs(first)))]
        ELSE [t EXCEPT !.profit_trend =
                           Some(IF last > first THEN "increasing" ELSE "decreasing"),
                       !.profit_growth_rate = None]

asset_block(t, assets) ==
    LET first == assets[1]
        last == assets[Len(assets)]
    IN  IF first > 0
        THEN [t EXCEPT !.asset_trend = Some(direction(last - first)),
                       !.asset_growth_rate = Some(Round2((last - first) * 100, first))]
        ELSE t

\* The year-over-year block: the last period against the one before it.
yoy_block(t, revenues, profits) ==
    LET n == Len(revenues)
        t1 == IF revenues[n - 1] > 0
              THEN Put(t, "revenue_yoy",
                       Some(Round2((revenues[n] - revenues[n - 1]) * 100, revenues[n - 1])))
              ELSE t
    IN  IF profits[n - 1] # 0
        THEN Put(t1, "profit_yoy",
                 Some(Round2((profits[n] - profits[n - 1]) * 100, Abs(profits[n - 1]))))
        ELSE t1

\* With more than two periods, a first revenue > 0 and a negative last one,
\* the root is a complex number and round(cagr, 2) raises TypeError.
identify_trends_raises(historical_data) ==
    LET revenues == revenue_values(historical_data)
    IN  /\ Len(historical_data) > 2
        /\ revenues[1] > 0
        /\ revenues[Len(revenues)] < 0

\* identify_trends testing the number of periods after it has filled the lists.
identify_trends_returning_late(historical_data) ==
    LET t0 == [empty_trends EXCEPT !.periods = period_labels(historical_data),
                                   !.revenue_values = revenue_values(historical_data),
                                   !.net_income_values = net_income_values(historical_data),
                                   !.total_assets_values =
                                       total_assets_values(historical_data)]
    IN  IF Len(historical_data) < 2 THEN Put(t0, "message", InsufficientData)
        ELSE yoy_block(asset_block(profit_block(
                 revenue_block(t0, revenue_values(historical_data)),
                 net_income_values(historical_data)),
                 total_assets_values(historical_data)),
                 revenue_values(historical_data), net_income_values(historical_data))

identify_trends(historical_data) ==
    IF Len(historical_data) < 2 THEN Put(empty_trends, "message", InsufficientData)
    ELSE LET revenues == revenue_values(historical_data)
             profits == net_income_values(historical_data)
             assets == total_assets_values(historical_data)
             t0 == [empty_trends EXCEPT !.periods = period_labels(historical_data),
                                        !.revenue_values = revenues,
                                        !.net_income_values = profits,
                                        !.total_assets_values = assets]
         IN  yoy_block(asset_block(profit_block(revenue_block(t0, revenues), profits),
                                   assets),
                       revenues, profits)

(* ----------------------------- peer benchmark ------------------------- *)

\* A benchmark table: industry key -> entry; an entry is a dict that may hold
\* 'ratios', the (metric, value) pairs in the order the dict lists them.
DEFAULT_BENCHMARKS ==
    [ general |->
        [ratios |-> << << "profit_margin", Rat(800, 100) >>, << "roa", Rat(500, 100) >>,
                       << "roe", Rat(1200, 100) >>, << "current_ratio", Rat(150, 100) >>,
                       << "quick_ratio", Rat(100, 100) >>,
                       << "debt_to_asset_ratio", Rat(5500, 100) >>,
                       << "debt_to_equity_ratio", Rat(11000, 100) >> >>],
      technology |->
        [ratios |-> << << "profit_margin", Rat(1200, 100) >>, << "roa", Rat(800, 100) >>,
                       << "roe", Rat(1500, 100) >>, << "current_ratio", Rat(180, 100) >>,
                       << "quick_ratio", Rat(140, 100) >>,
                       << "debt_to_asset_ratio", Rat(4500, 100) >>,
                       << "debt_to_equity_ratio", Rat(9000, 100) >> >>],
      retail |->
        [ratios |-> << << "profit_margin", Rat(600, 100) >>, << "roa", Rat(400, 100) >>,
                       << "roe", Rat(1000, 100) >>, << "current_ratio", Rat(130, 100) >>,
                       << "quick_ratio", Rat(80, 100) >>,
                       << "debt_to_asset_ratio", Rat(6500, 100) >>,
                       << "debt_to_equity_ratio", Rat(15000, 100) >> >>],
      manufacturing |->
        [ratios |-> << << "profit_margin", Rat(900, 100) >>, << "roa", Rat(600, 100) >>,
                       << "roe", Rat(1300, 100) >>, << "current_ratio", Rat(160, 100) >>,
                       << "quick_ratio", Rat(110, 100) >>,
                       << "debt_to_asset_ratio", Rat(6000, 100) >>,
                       << "debt_to_equity_ratio", Rat(13000, 100) >> >>] ]

\* PeerBenchmark.__init__: benchmarks or DEFAULT_BENCHMARKS (None and {} are
\* both the empty tuple here).
PeerBenchmark_init(supplied) == IF supplied = << >> THEN DEFAULT_BENCHMARKS ELSE supplied

Letters == DOMAIN UpperToLower \cup { UpperToLower[c] : c \in DOMAIN UpperToLower }

Upper1(c) ==
    IF \E u \in DOMAIN UpperToLower : UpperToLower[u] = c
    THEN CHOOSE u \in DOMAIN UpperToLower : UpperToLower[u] = c
    ELSE c

\* str.title(): a letter after a non-letter is upper case, the others lower
RECURSIVE TitleFrom(_, _)
TitleFrom(s, i) ==
    IF i > Len(s) THEN ""
    ELSE (IF i = 1 \/ Char(s, i - 1) \notin Letters
          THEN Upper1(Char(s, i)) ELSE Lower(Char(s, i))) \o TitleFrom(s, i + 1)

Title(s) == TitleFrom(s, 1)

\* The greatest common divisor of two naturals, not both 0.
RECURSIVE GCD(_, _)
GCD(a, b) == IF b = 0 THEN a ELSE GCD(b, a % b)

\* The same rational in lowest terms.
Reduced(r) ==
    LET g == GCD(Abs(r.num), r.den)
    IN  [num |-> r.num \div g, den |-> r.den \div g]

\* a - b of two rationals
RSub(a, b) ==
    LET x == Reduced(a)
        y == Reduced(b)
    IN  Reduced(Rat(x.num * y.den - y.num * x.den, x.den * y.den))

\* The (company, benchmark) pairs whose binary64 difference lands above the
\* difference of the decimals they are written as: 1.1 - 1.4 evaluates to
\* -0.2999999999999998.  Every other pair of the model whose decimal
\* difference is a threshold lands on it or on its far side (1.2 - 1.5 is
\* -0.30000000000000004, 3.0 - 8.0 is -5.0, 65.0 - 55.0 is 10.0).
LandsAbove == { << Rat(110, 100), Rat(140, 100) >> }

difference_le(company_value, benchmark_value, threshold) ==
    LET difference == RSub(company_value, benchmark_value)
    IN  \/ RLt(difference, threshold)
        \/ /\ REq(difference, threshold)
           /\ ~ \E p \in LandsAbove : REq(company_value, p[1]) /\ REq(benchmark_value, p[2])

\* company_value - benchmark_value >= threshold, evaluated in binary64
difference_ge(company_value, benchmark_value, threshold) ==
    ~ RLt(RSub(company_value, benchmark_value), threshold)

\* One entry of 'metrics'
comparison(metric, company_value, benchmark_value) ==
    LET difference == RSub(company_value, benchmark_value)
    IN  [metric |-> metric,
         company |-> Round2(company_value.num, company_value.den),
         benchmark |-> benchmark_value,
         difference |-> Round2(difference.num, difference.den)]

Alert(metric, text, by) == [metric |-> metric, text |-> text, by |-> by]

\* The alerts one metric appends: none or one.
alerts_of(metric, company_value, benchmark_value) ==
    LET difference == RSub(company_value, benchmark_value)
        rounded == Round2(difference.num, difference.den)
    IN  IF metric \in { "profit_margin", "roa", "roe" }
        THEN IF difference_le(company_value, benchmark_value, Whole(-5))
             THEN << Alert(metric, "is % below peers", Rat(Abs(rounded.num), 100)) >>
             ELSE << >>
        ELSE IF metric \in { "current_ratio", "quick_ratio" }
        THEN IF difference_le(company_value, benchmark_value, Rat(-3, 10))
             THEN << Alert(metric, "is materially weaker than peers", None) >>
             ELSE << >>
        ELSE IF metric \in { "debt_to_asset_ratio", "debt_to_equity_ratio" }
        THEN IF difference_ge(company_value, benchmark_value, Whole(10))
             THEN << Alert(metric, "exceeds peer leverage by %", rounded) >>
             ELSE << >>
        ELSE << >>

\* The loop over benchmark_ratios.items(), from the i-th item on: the metrics
\* the RatioSet lacks are skipped.
RECURSIVE compare_loop(_, _, _)
compare_loop(benchmark_ratios, company_ratios, i) ==
    IF i > Len(benchmark_ratios) THEN [comparisons |-> << >>, alerts |-> << >>]
    ELSE LET metric == benchmark_ratios[i][1]
             benchmark_value == benchmark_ratios[i][2]
             rest == compare_loop(benchmark_ratios, company_ratios, i + 1)
         IN  IF metric \notin DOMAIN company_ratios THEN rest
             ELSE [comparisons |->
                       << comparison(metric, company_ratios[metric], benchmark_value) >>
                       \o rest.comparisons,
                   alerts |->
                       alerts_of(metric, company_ratios[metric], benchmark_value)
                       \o rest.alerts]

\* max / min of a non-empty list by 'difference': the first of the extreme ones
first_extreme(cs, sign) ==
    cs[CHOOSE i \in 1..Len(cs) :
          /\ \A j \in 1..Len(cs) :
                ~ RGt(Rat(sign * cs[j].difference.num, 100), Rat(sign * cs[i].difference.num, 100))
          /\ \A j \in 1..(i - 1) : cs[j].difference.num # cs[i].difference.num]

\* _build_summary: the part about the best metric and the part about the
\* worst, None for a part that is absent; both absent is the "broadly in
\* line" sentence.
_build_summary(comparisons) ==
    LET better == SelectSeq(comparisons, LAMBDA c : c.difference.num > 0)
        weaker == SelectSeq(comparisons, LAMBDA c : c.difference.num < 0)
    IN  [outperforms |->
             IF better # << >>
             THEN LET top_metric == first_extreme(better, 1)
                  IN  Some([metric |-> top_metric.metric,
                            by |-> Rat(Abs(top_metric.difference.num), 100)])
             ELSE None,
         lags |->
             IF weaker # << >>
             THEN LET lag_metric == first_extreme(weaker, -1)
                  IN  Some([metric |-> lag_metric.metric,
                            by |-> Rat(Abs(lag_metric.difference.num), 100)])
             ELSE None]

\* (industry or 'general').strip().lower(), then 'general' unless it is a key
normalized_industry(table, given) ==
    LET normalized == Lower(Strip(IF given = None \/ V(given) = "" THEN "general"
                                  ELSE V(given)))
    IN  IF normalized \notin DOMAIN table THEN "general" ELSE normalized

\* self.benchmarks[normalized_industry] raises KeyError when the table has
\* neither the industry nor 'general'.
compare_raises(table, company_ratios, given) ==
    /\ company_ratios # << >>
    /\ normalized_industry(table, given) \notin DOMAIN table

\* PeerBenchmark.compare, when it returns
compare(table, company_ratios, given) ==
    IF company_ratios = << >> THEN None
    ELSE LET industry_key == normalized_industry(table, given)
             entry == table[industry_key]
             benchmark_ratios == IF "ratios" \in DOMAIN entry THEN entry.ratios ELSE << >>
             looped == compare_loop(benchmark_ratios, company_ratios, 1)
         IN  IF looped.comparisons = << >> THEN None
             ELSE Some([industry |-> Title(industry_key),
                        metrics |-> looped.comparisons,
                        alerts |-> looped.alerts,
                        summary |-> _build_summary(looped.comparisons)])

(* ----------------------------- DuPont analysis ------------------------ *)

\* a * b of two rationals
RMul(a, b) ==
    LET x == Reduced(a)
        y == Reduced(b)
    IN  Reduced(Rat(x.num * y.num, x.den * y.den))

\* ratios.get(name), as an optional ratio
RatioGet(ratio_set, name) ==
    IF name \in DOMAIN ratio_set THEN Some(ratio_set[name]) ELSE None

\* bool(x) for an optional ratio
RatioTruthy(x) == x # None /\ V(x).num # 0

three_factor_product_as_fraction(profit_margin, asset_turnover, equity_multiplier) ==
    RMul(RMul(RMul(profit_margin, Rat(1, 100)), asset_turnover), equity_multiplier)

\* (profit_margin / 100) * asset_turnover * equity_multiplier * 100
three_factor_product(profit_margin, asset_turnover, equity_multiplier) ==
    RMul(RMul(RMul(RMul(profit_margin, Rat(1, 100)), asset_turnover), equity_multiplier),
         Whole(100))

calculate_dupont_analysis(fd, ratio_set) ==
    LET base == [roe |-> RatioGet(ratio_set, "roe"),
                 profit_margin |-> RatioGet(ratio_set, "profit_margin"),
                 asset_turnover |-> RatioGet(ratio_set, "asset_turnover"),
                 equity_multiplier |-> RatioGet(ratio_set, "equity_multiplier"),
                 components |-> << >>]
    IN  IF /\ base.roe # None
           /\ RatioTruthy(base.profit_margin)
           /\ RatioTruthy(base.asset_turnover)
           /\ RatioTruthy(base.equity_multiplier)
        THEN LET calculated_roe ==
                     three_factor_product(V(base.profit_margin), V(base.asset_turnover),
                                          V(base.equity_multiplier))
                 rounded == Round2(calculated_roe.num, calculated_roe.den)
             IN  Put([base EXCEPT !.components =
                         IF calculated_roe.num # 0
                         THEN [profit_margin_contribution |-> rounded,
                               asset_turnover_contribution |-> rounded,
                               equity_multiplier_contribution |-> rounded]
                         ELSE << >>],
                     "calculated_roe", Some(rounded))
        ELSE base

(* ----------------------------- conversations -------------------------- *)

\* len(history) > 20 keeps history[-20:]
HistoryLimit == 20

\* history[-10:] is sent along with the question
HistoryWindow == 10

default_user_id == "default"

\* user_id or self.default_user_id
active_user_id(user_id) ==
    IF user_id = None \/ V(user_id) = "" THEN default_user_id ELSE V(user_id)

Message(role, content) == [role |-> role, content |-> content]

\* s[-n:]
LastOf(s, n) == IF Len(s) > n THEN SubSeq(s, Len(s) - n + 1, Len(s)) ELSE s

\* _get_history returning the whole stored history
_get_history_whole(histories, user_id) == GetOr(histories, user_id, << >>)

\* _get_history: history[-10:]
_get_history(histories, user_id) ==
    LastOf(GetOr(histories, user_id, << >>), HistoryWindow)

reset_conversation_of_nobody(histories, user_id) == histories

\* reset_conversation: one user's history is popped, or all are cleared
reset_conversation(histories, user_id) ==
    IF user_id # None /\ V(user_id) # ""
    THEN [u \in DOMAIN histories \ { V(user_id) } |-> histories[u]]
    ELSE << >>

_update_history_unbounded(histories, user_id, role, content) ==
    Put(histories, user_id,
        Append(GetOr(histories, user_id, << >>), Message(role, content)))

_update_history(histories, user_id, role, content) ==
    LET history == Append(GetOr(histories, user_id, << >>), Message(role, content))
    IN  Put(histories, user_id,
            IF Len(history) > HistoryLimit THEN LastOf(history, HistoryLimit) ELSE history)

\* The messages answer_question sends after the system prompt and the context.
question_messages(histories, user_id, question) ==
    Append(_get_history(histories, active_user_id(user_id)), Message("user", question))

\* The histories after answer_question, the completion having returned answer
answer_question(histories, user_id, question, completion) ==
    _update_history(_update_history(histories, active_user_id(user_id), "user", question),
                    active_user_id(user_id), "assistant", completion)

(* ------------------------ the adapters step by step ------------------- *)

\* The text adapter's copy of sales into a revenue that is still None.
copy_sales_to_revenue(fd) ==
    IF fd["revenue"] = None /\ fd["sales"] # None
    THEN [fd EXCEPT !["revenue"] = fd["sales"]] ELSE fd

\* The text adapter's free_cash_flow: written whenever both flows are known.
text_free_cash_flow(fd) ==
    IF fd["operating_cash_flow"] # None /\ fd["investing_cash_flow"] # None
    THEN [fd EXCEPT !["free_cash_flow"] =
             Some(V(fd["operating_cash_flow"]) + V(fd["investing_cash_flow"]))]
    ELSE fd

\* The tag adapter's turn of one field of KEYWORD_MAP.
scan_field(fd, k, normalized) ==
    IF xbrl_field(KEYWORD_MAP[k][2], normalized) # None
    THEN [fd EXCEPT ![KEYWORD_MAP[k][1]] = xbrl_field(KEYWORD_MAP[k][2], normalized)]
    ELSE fd

(* ------------------------------- state -------------------------------- *)

VARIABLES
    pc,                \* where the current call sequence stands
    financial_data,    \* the metric record (a dict: field -> optional amount)
    ratios,            \* the RatioSet (a dict: ratio name -> rational)
    risks,             \* the list of Risk dicts
    parsed_doc,        \* the parsed document under extraction
    front,             \* the front end serving the request: "chatbot", "api" or ""
    llm,               \* whether an LLM client is configured (self.llm / llm)
    llm_calls,         \* the external LLM calls of the operation under way or last
                       \* completed, with their outcomes
    insights,          \* the AI insights of the request, None when there are none
    response,          \* what the request handed back to its caller
    current_document,  \* FinancialChatbot.current_document
    analysis_results,  \* FinancialChatbot.analysis_results
    historical_data,   \* the periods handed to identify_trends
    trends,            \* the dict identify_trends returns
    benchmarks,        \* PeerBenchmark.benchmarks
    industry,          \* the industry argument of PeerBenchmark.compare
    benchmark,         \* what PeerBenchmark.compare returns
    dupont,            \* the dict calculate_dupont_analysis returns
    value,             \* the argument of _to_number
    number,            \* what _to_number returns
    conversation_histories,  \* FinancialLLM.conversation_histories: user -> messages
    answer,            \* what the last ask_question / answer_question returned
    scan               \* where an adapter stands in its scan of lines, rows or fields

vars ==
    << pc, financial_data, ratios, risks, parsed_doc, front, llm, llm_calls,
       insights, response, current_document, analysis_results, historical_data,
       trends, benchmarks, industry, benchmark, dupont, value, number,
       conversation_histories, answer, scan >>

trend_vars == << historical_data, trends >>

benchmark_vars == << benchmarks, industry, benchmark >>

normalizer_vars == << value, number >>

chat_vars == << conversation_histories, answer >>

\* The parts of the state a call sequence does not use stay as constructed.
TrendsIdle == historical_data = << >> /\ trends = << >>

BenchmarkIdle == benchmarks = << >> /\ industry = None /\ benchmark = None

DupontIdle == dupont = << >>

NormalizerIdle == value = NoneCell /\ number = None

ScanIdle == scan = << >>

ChatIdle == conversation_histories = << >> /\ answer = None

\* What the analyzer's own methods never touch.
request_vars ==
    << parsed_doc, front, llm, llm_calls, insights, response, current_document,
       analysis_results >>

(* ------------------- the analyzer called on its own ------------------- *)

Amounts == -1 .. MaxAmount

\* The subsets of S with at most k elements.
RECURSIVE AtMost(_, _)
AtMost(S, k) ==
    IF k = 0 THEN { {} }
    ELSE LET P == AtMost(S, k - 1) IN P \cup { s \cup {f} : s \in P, f \in S }

\* The metric record whose known fields are those of S, valued by v.
MetricRecord(S, v) == [f \in Fields |-> IF f \in S THEN Some(v[f]) ELSE None]

\* Records as the unit tests of assess_risks give them: net_income or nothing;
\* and records with the two cash flows the cash-flow rules read.
GivenMetricInputs ==
    { [f \in Fields |-> None] }
    \cup { [f \in Fields |-> IF f = "net_income" THEN Some(a) ELSE None] : a \in Amounts }
    \cup { [f \in Fields |-> IF f = "operating_cash_flow" THEN Some(a)
                             ELSE IF f = "free_cash_flow" THEN Some(b) ELSE None] :
             a \in { -1, 1 }, b \in { -1, 1 } }

\* The ratios assess_risks reads, and sample values on and around its thresholds.
AssessedRatios ==
    { "profit_margin", "roa", "roe", "current_ratio", "quick_ratio",
      "debt_to_asset_ratio", "debt_to_equity_ratio", "interest_coverage" }

RatioSamples ==
    { Rat(n, 2) : n \in { -2, 0, 1, 2, 3, 4, 5, 6, 8, 10, 12,
                          120, 122, 140, 142, 200, 202, 400, 402 } }

\* Either a metric record with at most MaxKnown known fields for
\* calculate_ratios, or a (record, RatioSet) pair
\* handed to assess_risks directly.
InitAnalyzer ==
    /\ risks = << >>
    /\ parsed_doc = EmptyDoc
    /\ front = ""
    /\ llm = FALSE
    /\ llm_calls = << >>
    /\ insights = None
    /\ response = ""
    /\ current_document = None
    /\ analysis_results = << >>
    /\ TrendsIdle /\ BenchmarkIdle /\ DupontIdle /\ NormalizerIdle /\ ScanIdle /\ ChatIdle
    /\ \/ /\ pc = "metrics"
          /\ \E S \in AtMost(Fields, MaxKnown) : \E v \in [S -> Amounts] :
                financial_data = MetricRecord(S, v)
          /\ ratios = << >>
       \/ /\ pc = "given"
          /\ financial_data \in GivenMetricInputs
          /\ \E S \in AtMost(AssessedRatios, MaxGiven) : ratios \in [S -> RatioSamples]

CalculateRatios ==
    /\ pc = "metrics"
    /\ IF calculate_ratios_raises(financial_data)
       THEN pc' = "raised" /\ UNCHANGED ratios
       ELSE pc' = "ratios" /\ ratios' = calculate_ratios(financial_data)
    /\ UNCHANGED << financial_data, risks, request_vars >>
    /\ UNCHANGED << trend_vars, benchmark_vars, dupont, normalizer_vars, scan, chat_vars >>

AssessRisks ==
    /\ pc \in { "ratios", "given" }
    /\ risks' = assess_risks(financial_data, ratios)
    /\ pc' = IF pc = "ratios" THEN "assessed" ELSE "assessed_given"
    /\ UNCHANGED << financial_data, ratios, request_vars >>
    /\ UNCHANGED << trend_vars, benchmark_vars, dupont, normalizer_vars, scan, chat_vars >>

NextAnalyzer == CalculateRatios \/ AssessRisks

SpecAnalyzer == InitAnalyzer /\ [][NextAnalyzer]_vars

(* --------------------------- sample documents ------------------------- *)

\* The sequences over S of length at most k.
SeqsUpTo(S, k) == UNION { [1..n -> S] : n \in 0..k }

\* Page texts as the pdf reader hands them over.
PageSamples ==
    { "Total Revenue: 1,000 1,200",
      "Net sales 900\nNet income (50)",
      "Operating activities 30",
      "Investing activities -10",
      "Notes to the accounts",
      " " }

\* Rows as the spreadsheet and csv readers hand them over.
RowSamples ==
    { DictRow(<< << "Metric", StrCell("Revenue") >>, << "FY2023", StrCell("1,200") >>,
                 << "FY2022", StrCell("1,000") >> >>),
      DictRow(<< << "Revenue", NumCell(50000) >>, << "Net Income", StrCell("(50)") >> >>),
      DictRow(<< << "metric", StrCell("Net Income") >>,
                 << "name", StrCell("Total Assets") >>, << "value", NumCell(70000) >> >>),
      DictRow(<< << "Item", StrCell("Operating cash flow") >>,
                 << "Amount", StrCell("$45") >> >>),
      DictRow(<< << "Operating Activities", NumCell(3000) >>,
                 << "Investing Activities", NumCell(-1000) >> >>),
      DictRow(<< << "Sales", NanCell >>, << "Total Debt", OtherCell >>,
                 << "Notes", NoneCell >> >>) }

\* Rows as a direct caller may also give them: an empty dict, and an object
\* that is not a dict.
GivenRowSamples == RowSamples \cup { DictRow(<< >>), NotADictRow }

\* Tag/value pairs as the xbrl reader hands them over.
TagSamples ==
    { << "Revenue", StrCell("2,500") >>,
      << "revenue", StrCell("n/a") >>,
      << "NetIncomeLoss", StrCell("(250)") >>,
      << "AssetsTotal", StrCell("5,000") >>,
      << "NetCashFromOperations", StrCell("USD 30") >>,
      << "DocumentType", StrCell("10-K") >> }

PdfDocs == { ParsedDoc("pdf", pages, << >>, << >>) : pages \in SeqsUpTo(PageSamples, MaxPages) }

CsvDocs(row_samples) ==
    { ParsedDoc("csv", << >>, << >>, rows) : rows \in SeqsUpTo(row_samples, MaxRows) }

\* A workbook with one sheet per row.
ExcelDocs(row_samples) ==
    { ParsedDoc("excel", << >>, [i \in 1..Len(rows) |-> << rows[i] >>], << >>) :
        rows \in SeqsUpTo(row_samples, MaxRows) }

\* The keys of a dict are distinct.
XbrlDocs ==
    { ParsedDoc("xbrl", << >>, << >>, tags) :
        tags \in { t \in SeqsUpTo(TagSamples, MaxTags) :
                     \A i, j \in 1..Len(t) : t[i][1] = t[j][1] => i = j } }

ImageDoc == ParsedDoc("image", << >>, << >>, << >>)

\* What parse_document can return.
ParsedDocs ==
    PdfDocs \cup CsvDocs(RowSamples) \cup ExcelDocs(RowSamples) \cup XbrlDocs
    \cup { ImageDoc }

\* What a direct caller of the adapters may give: also rows of other shapes
\* and no document at all.
GivenDocs ==
    PdfDocs \cup CsvDocs(GivenRowSamples) \cup ExcelDocs(GivenRowSamples) \cup XbrlDocs
    \cup { ImageDoc, EmptyDoc }

\* '\n'.join(pages)
RECURSIVE Join(_)
Join(pages) ==
    IF pages = << >> THEN ""
    ELSE IF Len(pages) = 1 THEN pages[1]
    ELSE pages[1] \o "\n" \o Join(Tail(pages))

\* The orders in which the set ROW_LABEL_KEYS may be iterated: one order and
\* its reverse put every two keys both ways round.
LabelOrders ==
    { << "metric", "item", "description", "account", "name", "line", "category" >>,
      << "category", "line", "name", "account", "description", "item", "metric" >> }

(* ------------------- the adapters called on their own ----------------- *)

InitExtract ==
    /\ pc = "doc"
    /\ parsed_doc \in GivenDocs
    /\ financial_data = << >>
    /\ ratios = << >>
    /\ risks = << >>
    /\ front = ""
    /\ llm = FALSE
    /\ llm_calls = << >>
    /\ insights = None
    /\ response = ""
    /\ current_document = None
    /\ analysis_results = << >>
    /\ TrendsIdle /\ BenchmarkIdle /\ DupontIdle /\ NormalizerIdle /\ ScanIdle /\ ChatIdle

ExtractFinancialData ==
    /\ pc = "doc"
    /\ parsed_doc.type = "pdf"
    /\ financial_data' = extract_financial_data(Join(parsed_doc.pages))
    /\ pc' = "text_extracted"
    /\ UNCHANGED << ratios, risks, request_vars >>
    /\ UNCHANGED << trend_vars, benchmark_vars, dupont, normalizer_vars, scan, chat_vars >>

ExtractFromStructuredData ==
    /\ pc = "doc"
    /\ \E label_order \in LabelOrders :
          financial_data' = extract_from_structured_data(parsed_doc, label_order)
    /\ pc' = "structured_extracted"
    /\ UNCHANGED << ratios, risks, request_vars >>
    /\ UNCHANGED << trend_vars, benchmark_vars, dupont, normalizer_vars, scan, chat_vars >>

ExtractFromXbrl ==
    /\ pc = "doc"
    /\ parsed_doc.empty \/ parsed_doc.type = "xbrl"
    /\ financial_data' = extract_from_xbrl(parsed_doc)
    /\ pc' = "xbrl_extracted"
    /\ UNCHANGED << ratios, risks, request_vars >>
    /\ UNCHANGED << trend_vars, benchmark_vars, dupont, normalizer_vars, scan, chat_vars >>

NextExtract == ExtractFinancialData \/ ExtractFromStructuredData \/ ExtractFromXbrl

SpecExtract == InitExtract /\ [][NextExtract]_vars

(* ----------------------- external structured data --------------------- *)

\* merge_llm_structured_data(financial_data, structured): per recognized
\* field the external value when it is known, else the local one; with it the
\* payload's metadata and the fields the merge added or changed.
merge_llm_structured_data(fd, structured) ==
    LET metrics == structured.metrics
        merged == [f \in Fields |->
                     IF Get(metrics, f) # None THEN metrics[f] ELSE Get(fd, f)]
    IN  [financial_data |-> merged,
         llm_metadata |-> structured.metadata,
         llm_notes |-> { f \in Fields : merged[f] # Get(fd, f) }]

\* The pdf branch after the text adapter: a raised call is swallowed and an
\* empty payload is skipped, both leaving the local record; anything else is
\* merged into it.
pdf_financial_data_keeping_local(local, structured_call) == local

pdf_financial_data(local, structured_call) ==
    IF structured_call.raised THEN local
    ELSE IF DOMAIN structured_call.payload # {}
    THEN merge_llm_structured_data(local, structured_call.payload).financial_data
    ELSE local

(* ------------------------- the analysis request ----------------------- *)

\* The keys of the metrics an LLM payload may carry: two recognized, one not.
PayloadKeys == { "revenue", "net_income", "ebitda" }

\* extract_structured_data raises, returns {} or returns a normalized payload
\* whose metrics are known amounts or null.
StructuredOutcomes ==
    { [raised |-> TRUE, payload |-> << >>], [raised |-> FALSE, payload |-> << >>] }
    \cup { [raised |-> FALSE,
            payload |-> [metrics |-> m, metadata |-> "metadata", notes |-> << >>]] :
              m \in UNION { [K -> { None, Some(70000) }] : K \in SUBSET PayloadKeys } }

\* analyze_document_with_vision returns text, raises NotImplementedError (the
\* Tongyi client always does) or raises another exception.
VisionOutcomes == { "text", "NotImplementedError", "Exception" }

LLMCall(name, raised, payload) == [call |-> name, raised |-> raised, payload |-> payload]

Init ==
    /\ pc = "request"
    /\ front \in { "chatbot", "api" }
    /\ llm \in BOOLEAN
    /\ parsed_doc = EmptyDoc
    /\ financial_data = << >>
    /\ ratios = << >>
    /\ risks = << >>
    /\ llm_calls = << >>
    /\ insights = None
    /\ response = ""
    /\ current_document = None
    /\ analysis_results = << >>
    /\ TrendsIdle /\ BenchmarkIdle /\ DupontIdle /\ NormalizerIdle /\ ScanIdle /\ ChatIdle

\* Step 1: the file is missing (chatbot only), the parser raises, or the
\* parser returns a document.
ParseDocument ==
    /\ pc = "request"
    /\ \/ /\ front = "chatbot"
          /\ response' = "error"
          /\ pc' = "done"
          /\ UNCHANGED << parsed_doc, current_document >>
       \/ /\ response' = IF front = "chatbot" THEN "error" ELSE "http_500"
          /\ pc' = "done"
          /\ UNCHANGED << parsed_doc, current_document >>
       \/ /\ \E doc \in ParsedDocs :
                /\ parsed_doc' = doc
                /\ current_document' = IF front = "chatbot" THEN Some(doc)
                                       ELSE current_document
          /\ pc' = "parsed"
          /\ UNCHANGED response
    /\ UNCHANGED << financial_data, ratios, risks, front, llm, llm_calls, insights,
                    analysis_results >>
    /\ UNCHANGED << trend_vars, benchmark_vars, dupont, normalizer_vars, scan, chat_vars >>

\* Step 2: the branch of the document's type, up to the first external call
\* of the pdf branch.
ExtractData ==
    /\ pc = "parsed"
    /\ \/ /\ parsed_doc.type = "pdf"
          /\ financial_data' = extract_financial_data(Join(parsed_doc.pages))
          /\ UNCHANGED llm_calls
       \/ /\ parsed_doc.type \in { "excel", "csv" }
          /\ \E label_order \in LabelOrders :
                financial_data' = extract_from_structured_data(parsed_doc, label_order)
          /\ UNCHANGED llm_calls
       \/ /\ parsed_doc.type = "xbrl"
          /\ financial_data' = extract_from_xbrl(parsed_doc)
          /\ UNCHANGED llm_calls
       \/ /\ parsed_doc.type = "image" /\ llm
          /\ \E outcome \in VisionOutcomes :
                /\ financial_data' = IF outcome = "text"
                                     THEN [llm_extraction |-> "analysis"] ELSE << >>
                /\ llm_calls' = Append(llm_calls,
                       LLMCall("analyze_document_with_vision", outcome # "text", << >>))
       \/ /\ parsed_doc.type \notin { "pdf", "excel", "csv", "xbrl" }
          /\ ~ (parsed_doc.type = "image" /\ llm)
          /\ financial_data' = << >>
          /\ UNCHANGED llm_calls
    /\ pc' = IF parsed_doc.type = "pdf" THEN "text_extracted" ELSE "metrics"
    /\ UNCHANGED << ratios, risks, parsed_doc, front, llm, insights, response,
                    current_document, analysis_results >>
    /\ UNCHANGED << trend_vars, benchmark_vars, dupont, normalizer_vars, scan, chat_vars >>

\* Step 2, the rest of the pdf branch: with an LLM and a text that is not
\* blank, the structured extraction is called and its payload merged.
ExtractStructuredData ==
    /\ pc = "text_extracted"
    /\ IF llm /\ Strip(Join(parsed_doc.pages)) # ""
       THEN \E structured_call \in StructuredOutcomes :
              /\ financial_data' = pdf_financial_data(financial_data, structured_call)
              /\ llm_calls' = Append(llm_calls,
                     LLMCall("extract_structured_data", structured_call.raised,
                             structured_call.payload))
       ELSE UNCHANGED << financial_data, llm_calls >>
    /\ pc' = "metrics"
    /\ UNCHANGED << ratios, risks, parsed_doc, front, llm, insights, response,
                    current_document, analysis_results >>
    /\ UNCHANGED << trend_vars, benchmark_vars, dupont, normalizer_vars, scan, chat_vars >>

\* Step 5: the insights call is made outside any try block; what it raises
\* leaves upload_and_analyze, and in analyze_files becomes the HTTP 500 of the
\* outer handler.
GenerateInsights ==
    /\ pc = "assessed"
    /\ IF llm /\ DOMAIN financial_data # {}
       THEN \E raised \in BOOLEAN :
              /\ llm_calls' = Append(llm_calls,
                     LLMCall("generate_financial_insights", raised, << >>))
              /\ IF raised
                 THEN /\ response' = IF front = "chatbot" THEN "exception" ELSE "http_500"
                      /\ pc' = "done"
                      /\ UNCHANGED insights
                 ELSE /\ insights' = Some("insights")
                      /\ pc' = "insights"
                      /\ UNCHANGED response
       ELSE /\ insights' = None
            /\ pc' = "insights"
            /\ UNCHANGED << llm_calls, response >>
    /\ UNCHANGED << financial_data, ratios, risks, parsed_doc, front, llm,
                    current_document, analysis_results >>
    /\ UNCHANGED << trend_vars, benchmark_vars, dupont, normalizer_vars, scan, chat_vars >>

\* The results are stored (chatbot) and returned.
StoreAndReturn ==
    /\ pc = "insights"
    /\ analysis_results' =
          IF front = "chatbot"
          THEN [document_type |-> parsed_doc.type, financial_data |-> financial_data,
                ratios |-> ratios, risks |-> risks, insights |-> insights]
          ELSE analysis_results
    /\ response' = "results"
    /\ pc' = "done"
    /\ UNCHANGED << financial_data, ratios, risks, parsed_doc, front, llm, llm_calls,
                    insights, current_document >>
    /\ UNCHANGED << trend_vars, benchmark_vars, dupont, normalizer_vars, scan, chat_vars >>

Next ==
    \/ ParseDocument
    \/ ExtractData
    \/ ExtractStructuredData
    \/ CalculateRatios
    \/ AssessRisks
    \/ GenerateInsights
    \/ StoreAndReturn

Spec == Init /\ [][Next]_vars

(* ----------------- the trend analyzer called on its own --------------- *)

\* Periods as the callers give them, amounts in units of 100,000: the revenue
\* of the unit tests (1,000,000 then 1,200,000) is 10 then 12.
PeriodSamples ==
    { [revenue |-> Some(10), net_income |-> Some(2), total_assets |-> Some(20)],
      [revenue |-> Some(12), net_income |-> Some(3), total_assets |-> Some(25)],
      [revenue |-> Some(3), net_income |-> Some(-2), total_assets |-> Some(20)],
      [sales |-> Some(9)],
      [period |-> "FY2023", revenue |-> Some(10), net_income |-> None],
      [revenue |-> Some(0), net_income |-> Some(0), total_assets |-> Some(0)],
      [revenue |-> Some(-5), total_assets |-> None],
      << >> }

InitTrends ==
    /\ pc = "periods"
    /\ historical_data \in SeqsUpTo(PeriodSamples, MaxPeriods)
    /\ trends = << >>
    /\ financial_data = << >>
    /\ ratios = << >>
    /\ risks = << >>
    /\ parsed_doc = EmptyDoc
    /\ front = ""
    /\ llm = FALSE
    /\ llm_calls = << >>
    /\ insights = None
    /\ response = ""
    /\ current_document = None
    /\ analysis_results = << >>
    /\ BenchmarkIdle /\ DupontIdle /\ NormalizerIdle /\ ScanIdle /\ ChatIdle

IdentifyTrends ==
    /\ pc = "periods"
    /\ IF identify_trends_raises(historical_data)
       THEN pc' = "raised" /\ UNCHANGED trends
       ELSE pc' = "trends" /\ trends' = identify_trends(historical_data)
    /\ UNCHANGED << financial_data, ratios, risks, request_vars, historical_data,
                    benchmark_vars, dupont, normalizer_vars, scan, chat_vars >>

NextTrends == IdentifyTrends

SpecTrends == InitTrends /\ [][NextTrends]_vars

(* ------------------- the peer benchmark called on its own ------------- *)

\* Tables a caller may supply: none (the defaults apply), one without a
\* 'general' entry, one whose entry has no 'ratios', one with an industry of
\* its own.
SuppliedTables ==
    { << >>,
      [Tech |-> [ratios |-> << << "roe", Rat(100, 100) >> >>]],
      [general |-> << >>],
      [general |-> [ratios |-> << << "roe", Rat(1000, 100) >> >>],
       banking |-> [ratios |-> << << "roe", Rat(900, 100) >>,
                                  << "debt_to_asset_ratio", Rat(9000, 100) >> >>]] }

IndustrySamples ==
    { None, Some(""), Some("  "), Some("general"), Some("technology"),
      Some("  Technology "), Some("RETAIL"), Some("manufacturing"), Some("banking"),
      Some("Tech"), Some("biotech") }

\* Company values per ratio, around the alert thresholds of the tables.
ComparedSamples ==
    [ profit_margin |-> { Rat(300, 100), Rat(600, 100), Rat(700, 100) },
      roa |-> { Rat(0, 100), Rat(300, 100), Rat(900, 100) },
      roe |-> { Rat(700, 100), Rat(1000, 100), Rat(2000, 100) },
      current_ratio |-> { Rat(120, 100), Rat(121, 100), Rat(4, 3) },
      quick_ratio |-> { Rat(70, 100), Rat(80, 100), Rat(110, 100) },
      debt_to_asset_ratio |-> { Rat(4000, 100), Rat(6500, 100), Rat(7000, 100) },
      debt_to_equity_ratio |-> { Rat(9000, 100), Rat(11999, 100), Rat(12000, 100) },
      cash_ratio |-> { Rat(50, 100) } ]

InitBenchmark ==
    /\ pc = "new"
    /\ benchmarks \in SuppliedTables
    /\ industry \in IndustrySamples
    /\ \E S \in AtMost(DOMAIN ComparedSamples, MaxCompared) :
          \E v \in [S -> UNION { ComparedSamples[m] : m \in S }] :
             /\ \A m \in S : v[m] \in ComparedSamples[m]
             /\ ratios = v
    /\ benchmark = None
    /\ financial_data = << >>
    /\ risks = << >>
    /\ parsed_doc = EmptyDoc
    /\ front = ""
    /\ llm = FALSE
    /\ llm_calls = << >>
    /\ insights = None
    /\ response = ""
    /\ current_document = None
    /\ analysis_results = << >>
    /\ TrendsIdle /\ DupontIdle /\ NormalizerIdle /\ ScanIdle /\ ChatIdle

\* PeerBenchmark(benchmarks): the argument becomes self.benchmarks
Construct ==
    /\ pc = "new"
    /\ pc' = "constructed"
    /\ benchmarks' = PeerBenchmark_init(benchmarks)
    /\ UNCHANGED << financial_data, ratios, risks, request_vars, trend_vars, industry,
                    benchmark, dupont, normalizer_vars, scan, chat_vars >>

Compare ==
    /\ pc = "constructed"
    /\ IF compare_raises(benchmarks, ratios, industry)
       THEN pc' = "raised" /\ UNCHANGED benchmark
       ELSE pc' = "compared" /\ benchmark' = compare(benchmarks, ratios, industry)
    /\ UNCHANGED << financial_data, ratios, risks, request_vars, trend_vars, benchmarks,
                    industry, dupont, normalizer_vars, scan, chat_vars >>

NextBenchmark == Construct \/ Compare

SpecBenchmark == InitBenchmark /\ [][NextBenchmark]_vars

(* ------------------- ratios, then the DuPont analysis ----------------- *)

\* The amounts of the fields the four DuPont ratios are derived from.
DupontAmounts == { -3, 0, 1, 3, 7 }

DupontFields == { "revenue", "sales", "net_income", "total_assets", "equity" }

InitDupont ==
    /\ pc = "metrics"
    /\ \E v \in [DupontFields -> { None } \cup { Some(a) : a \in DupontAmounts }] :
          financial_data = [f \in Fields |-> IF f \in DupontFields THEN v[f] ELSE None]
    /\ ratios = << >>
    /\ risks = << >>
    /\ parsed_doc = EmptyDoc
    /\ front = ""
    /\ llm = FALSE
    /\ llm_calls = << >>
    /\ insights = None
    /\ response = ""
    /\ current_document = None
    /\ analysis_results = << >>
    /\ TrendsIdle /\ BenchmarkIdle /\ DupontIdle /\ NormalizerIdle /\ ScanIdle /\ ChatIdle

CalculateDupontAnalysis ==
    /\ pc = "ratios"
    /\ pc' = "dupont"
    /\ dupont' = calculate_dupont_analysis(financial_data, ratios)
    /\ UNCHANGED << financial_data, ratios, risks, request_vars, trend_vars,
                    benchmark_vars, normalizer_vars, scan, chat_vars >>

NextDupont == CalculateRatios \/ CalculateDupontAnalysis

SpecDupont == InitDupont /\ [][NextDupont]_vars

(* ------------------- the numeric normalizer called on its own --------- *)

\* s repeated n times
RECURSIVE Repeat(_, _)
Repeat(s, n) ==
    IF n = 0 THEN ""
    ELSE IF n = 1 THEN s
    ELSE Repeat(s, n \div 2) \o Repeat(s, n - n \div 2)

\* Cell texts: what may stand before a number, the number, what may follow.
CellPrefixes == { "", "(", "$", "-", "  ", "USD " }

CellBodies ==
    { "", "-", "1,234.50", "45,000", "12", "0", "abc", "1.2.3", ".5",
      Repeat("9", MaxDigits), FloatOverflowThreshold }

CellSuffixes == { "", ")", "%", " USD" }

ValueSamples ==
    { StrCell(a \o b \o c) : a \in CellPrefixes, b \in CellBodies, c \in CellSuffixes }
    \cup { NumCell(-150), NumCell(0), NumCell(4500000),
           NanCell, NoneCell, OtherCell, HugeIntCell }

InitNormalizer ==
    /\ pc = "cell"
    /\ value \in ValueSamples
    /\ number = None
    /\ financial_data = << >>
    /\ ratios = << >>
    /\ risks = << >>
    /\ parsed_doc = EmptyDoc
    /\ front = ""
    /\ llm = FALSE
    /\ llm_calls = << >>
    /\ insights = None
    /\ response = ""
    /\ current_document = None
    /\ analysis_results = << >>
    /\ TrendsIdle /\ BenchmarkIdle /\ DupontIdle /\ ChatIdle /\ ScanIdle

ToNumber ==
    /\ pc = "cell"
    /\ IF _to_number_raises(value)
       THEN pc' = "raised" /\ UNCHANGED number
       ELSE pc' = "number" /\ number' = _to_number(value)
    /\ UNCHANGED << financial_data, ratios, risks, request_vars, trend_vars,
                    benchmark_vars, dupont, value, chat_vars, scan >>

NextNormalizer == ToNumber

SpecNormalizer == InitNormalizer /\ [][NextNormalizer]_vars

(* ------------------- the liquidity inputs of the ratio engine --------- *)

\* The fields the current and quick ratio blocks read.
LiquidityFields ==
    { "current_assets", "current_liabilities", "inventory", "accounts_receivable" }

InitLiquidity ==
    /\ pc = "metrics"
    /\ \E v \in [LiquidityFields -> { None } \cup { Some(a) : a \in Amounts }] :
          financial_data = [f \in Fields |-> IF f \in LiquidityFields THEN v[f] ELSE None]
    /\ ratios = << >>
    /\ risks = << >>
    /\ parsed_doc = EmptyDoc
    /\ front = ""
    /\ llm = FALSE
    /\ llm_calls = << >>
    /\ insights = None
    /\ response = ""
    /\ current_document = None
    /\ analysis_results = << >>
    /\ TrendsIdle /\ BenchmarkIdle /\ DupontIdle /\ NormalizerIdle /\ ScanIdle /\ ChatIdle

NextLiquidity == CalculateRatios

SpecLiquidity == InitLiquidity /\ [][NextLiquidity]_vars

(* ------------------- the LLM conversations on their own --------------- *)

\* None is the caller that passes no user_id (the chatbot).
UserSamples == { None, Some("u1") }

QuestionSamples == { "Q?", "Why?" }

\* The exchanges all histories hold between them.
RECURSIVE Exchanges(_)
Exchanges(histories) ==
    IF DOMAIN histories = {} THEN 0
    ELSE LET u == CHOOSE u \in DOMAIN histories : TRUE
         IN  Len(histories[u]) \div 2
             + Exchanges([v \in DOMAIN histories \ { u } |-> histories[v]])

InitConversation ==
    /\ pc = "llm"
    /\ conversation_histories = << >>
    /\ answer = None
    /\ llm = TRUE
    /\ llm_calls = << >>
    /\ financial_data = << >>
    /\ ratios = << >>
    /\ risks = << >>
    /\ parsed_doc = EmptyDoc
    /\ front = ""
    /\ insights = None
    /\ response = ""
    /\ current_document = None
    /\ analysis_results = << >>
    /\ TrendsIdle /\ BenchmarkIdle /\ DupontIdle /\ NormalizerIdle /\ ScanIdle

\* FinancialLLM.answer_question: the completion returns text or raises; what
\* it raises leaves answer_question before the history is touched.
AnswerQuestion ==
    /\ pc = "llm"
    /\ Exchanges(conversation_histories) < MaxExchanges
    /\ \E user_id \in UserSamples, question \in QuestionSamples, raised \in BOOLEAN :
          /\ llm_calls' = << LLMCall("answer_question", raised,
                                     [user_id |-> active_user_id(user_id),
                                      question |-> question,
                                      messages |-> question_messages(conversation_histories,
                                                                     user_id, question)]) >>
          /\ IF raised
             THEN answer' = None /\ UNCHANGED conversation_histories
             ELSE /\ answer' = Some("answer")
                  /\ conversation_histories' =
                        answer_question(conversation_histories, user_id, question, "answer")
    /\ UNCHANGED << pc, financial_data, ratios, risks, parsed_doc, front, llm, insights,
                    response, current_document, analysis_results, trend_vars,
                    benchmark_vars, dupont, normalizer_vars, scan >>

ResetConversation ==
    /\ pc = "llm"
    /\ \E user_id \in UserSamples :
          conversation_histories' = reset_conversation(conversation_histories, user_id)
    /\ llm_calls' = << >>
    /\ answer' = None
    /\ UNCHANGED << pc, financial_data, ratios, risks, parsed_doc, front, llm, insights,
                    response, current_document, analysis_results, trend_vars,
                    benchmark_vars, dupont, normalizer_vars, scan >>

NextConversation == AnswerQuestion \/ ResetConversation

SpecConversation == InitConversation /\ [][NextConversation]_vars

(* ------------------------------- chatbot ------------------------------ *)

UploadFirst == "Please upload and analyze a financial statement first."

LLMNotAvailable == "LLM features are not available. Please configure OpenAI API key."

\* The pdf branch of _extract_data_from_parsed_doc: the text adapter's
\* record, merged with the structured data when there is an LLM and text.
pdf_branch(local, with_llm, structured_call) ==
    IF with_llm THEN pdf_financial_data(local, structured_call) ELSE local

\* _extract_data_from_parsed_doc: the metric record of the document's branch,
\* given the outcomes of the external calls the branch makes.
_extract_data_from_parsed_doc(doc, has_llm, label_order, structured_call, vision_outcome) ==
    IF doc.type = "pdf"
    THEN pdf_branch(extract_financial_data(Join(doc.pages)),
                    has_llm /\ Strip(Join(doc.pages)) # "", structured_call)
    ELSE IF doc.type \in { "excel", "csv" } THEN extract_from_structured_data(doc, label_order)
    ELSE IF doc.type = "xbrl" THEN extract_from_xbrl(doc)
    ELSE IF doc.type = "image" /\ has_llm
    THEN IF vision_outcome = "text" THEN [llm_extraction |-> "analysis"] ELSE << >>
    ELSE << >>

\* The external calls _extract_data_from_parsed_doc makes.
extraction_calls(doc, has_llm, structured_call, vision_outcome) ==
    IF doc.type = "pdf" /\ has_llm /\ Strip(Join(doc.pages)) # ""
    THEN << LLMCall("extract_structured_data", structured_call.raised,
                    structured_call.payload) >>
    ELSE IF doc.type = "image" /\ has_llm
    THEN << LLMCall("analyze_document_with_vision", vision_outcome # "text", << >>) >>
    ELSE << >>

\* What upload_and_analyze stores for the questions to come ('period', the
\* file's name, is left out: nothing reads it).
stored_results(doc, fd, ratio_set, insight) ==
    [document_type |-> doc.type,
     financial_data |-> fd,
     ratios |-> ratio_set,
     risks |-> assess_risks(fd, ratio_set),
     insights |-> insight,
     dupont |-> calculate_dupont_analysis(fd, ratio_set),
     benchmark |-> compare(DEFAULT_BENCHMARKS, ratio_set, None),
     cash_flow |-> build_cash_flow_summary(fd),
     raw_text |-> IF doc.type = "pdf" THEN Some(Join(doc.pages)) ELSE None]

(* ------------------------- the chatbot's operations ------------------- *)

\* The documents uploaded to the chatbot: a csv file, a scanned image, a pdf
\* without text.
ChatbotDocs ==
    { ParsedDoc("csv", << >>, << >>,
                << DictRow(<< << "Revenue", NumCell(50000) >>,
                              << "Net Income", StrCell("(50)") >> >>) >>),
      ImageDoc,
      ParsedDoc("pdf", << " " >>, << >>, << >>) }

ChatbotQuestions == { "Q?" }

\* The outcomes of an external call: all of them when the call is made, one
\* that nothing reads when it is not.
OutcomesOf(called, outcomes) ==
    IF called THEN outcomes ELSE { CHOOSE outcome \in outcomes : TRUE }

InitChatbot ==
    /\ pc = "chatbot"
    /\ front = "chatbot"
    /\ llm \in BOOLEAN
    /\ current_document = None
    /\ analysis_results = << >>
    /\ conversation_histories = << >>
    /\ answer = None
    /\ llm_calls = << >>
    /\ parsed_doc = EmptyDoc
    /\ financial_data = << >>
    /\ ratios = << >>
    /\ risks = << >>
    /\ insights = None
    /\ response = ""
    /\ dupont = << >>
    /\ benchmarks = DEFAULT_BENCHMARKS /\ industry = None /\ benchmark = None
    /\ TrendsIdle /\ NormalizerIdle /\ ScanIdle

\* upload_and_analyze: the file is missing or the parser raises (nothing is
\* kept), or the document is kept and analysed; when the insights call raises,
\* the exception leaves before the results are stored.
UploadAndAnalyze ==
    /\ \/ /\ response' = "error"
          /\ llm_calls' = << >>
          /\ UNCHANGED << parsed_doc, financial_data, ratios, risks, insights, dupont,
                          benchmark, current_document, analysis_results >>
       \/ \E doc \in ChatbotDocs :
          \E label_order \in OutcomesOf(doc.type \in { "excel", "csv" }, LabelOrders),
             structured_call \in OutcomesOf(llm /\ doc.type = "pdf"
                                               /\ Strip(Join(doc.pages)) # "",
                                            StructuredOutcomes),
             vision_outcome \in OutcomesOf(llm /\ doc.type = "image", VisionOutcomes),
             insights_raised \in BOOLEAN :
          \E fd \in { _extract_data_from_parsed_doc(doc, llm, label_order, structured_call,
                                                     vision_outcome) } :
          \E ratio_set \in { calculate_ratios(fd) } :
          \E results \in { stored_results(doc, fd, ratio_set,
                                          IF llm /\ DOMAIN fd # {} THEN Some("insights")
                                          ELSE None) } :
             /\ results.insights # None \/ ~ insights_raised
             /\ parsed_doc' = doc
             /\ current_document' = Some(doc)
             /\ financial_data' = fd
             /\ ratios' = ratio_set
             /\ risks' = results.risks
             /\ dupont' = results.dupont
             /\ benchmark' = results.benchmark
             /\ llm_calls' =
                   extraction_calls(doc, llm, structured_call, vision_outcome)
                   \o (IF results.insights # None
                       THEN << LLMCall("generate_financial_insights", insights_raised,
                                       << >>) >>
                       ELSE << >>)
             /\ IF insights_raised
                THEN /\ response' = "exception"
                     /\ UNCHANGED << insights, analysis_results >>
                ELSE /\ response' = "results"
                     /\ insights' = results.insights
                     /\ analysis_results' = results
    /\ pc' = "uploaded"
    /\ UNCHANGED << front, llm, trend_vars, benchmarks, industry, normalizer_vars, scan,
                    chat_vars >>

\* FinancialChatbot.ask_question
AskQuestion ==
    /\ \E question \in ChatbotQuestions :
          IF analysis_results = << >>
          THEN /\ answer' = Some(UploadFirst)
               /\ llm_calls' = << >>
               /\ UNCHANGED conversation_histories
          ELSE IF ~ llm
          THEN /\ answer' = Some(LLMNotAvailable)
               /\ llm_calls' = << >>
               /\ UNCHANGED conversation_histories
          ELSE \E raised \in BOOLEAN :
                  /\ llm_calls' = << LLMCall("answer_question", raised,
                                             [user_id |-> active_user_id(None),
                                              question |-> question,
                                              messages |-> question_messages(
                                                  conversation_histories, None,
                                                  question)]) >>
                  /\ IF raised
                     THEN answer' = None /\ UNCHANGED conversation_histories
                     ELSE /\ answer' = Some("answer")
                          /\ conversation_histories' =
                                answer_question(conversation_histories, None, question,
                                                "answer")
    /\ pc' = "asked"
    /\ UNCHANGED << financial_data, ratios, risks, parsed_doc, front, llm, insights,
                    response, current_document, analysis_results, trend_vars,
                    benchmark_vars, dupont, normalizer_vars, scan >>

\* FinancialChatbot.reset
Reset ==
    /\ current_document' = None
    /\ analysis_results' = << >>
    /\ conversation_histories' = IF llm THEN reset_conversation(conversation_histories, None)
                                 ELSE conversation_histories
    /\ pc' = "reset"
    /\ UNCHANGED << financial_data, ratios, risks, parsed_doc, front, llm, llm_calls,
                    insights, response, trend_vars, benchmark_vars, dupont,
                    normalizer_vars, scan, answer >>

NextChatbot == UploadAndAnalyze \/ AskQuestion \/ Reset

SpecChatbot == InitChatbot /\ [][NextChatbot]_vars

(* ------------------- the tabular adapter on keyword labels ------------ *)

\* The value every keyword row carries.
KeywordAmount == NumCell(70000)

\* The texts a keyword is written as: as listed, and in title case.
KeywordTexts ==
    UNION { UNION { { KEYWORD_MAP[k][2][j], Title(KEYWORD_MAP[k][2][j]) } :
                      j \in 1..Len(KEYWORD_MAP[k][2]) } :
              k \in 1..Len(KEYWORD_MAP) }

\* One-row documents whose only label is a keyword: as a column header, and
\* as the cell of a metric column next to the value.
KeywordRows ==
    { DictRow(<< << text, KeywordAmount >> >>) : text \in KeywordTexts }
    \cup { DictRow(<< << "Metric", StrCell(text) >>, << "FY2023", KeywordAmount >> >>) :
             text \in KeywordTexts }
    \cup { DictRow(<< << "item", StrCell(text) >>, << "value", KeywordAmount >> >>) :
             text \in KeywordTexts }

InitKeywords ==
    /\ pc = "doc"
    /\ parsed_doc \in { ParsedDoc("csv", << >>, << >>, << row >>) : row \in KeywordRows }
    /\ financial_data = << >>
    /\ ratios = << >>
    /\ risks = << >>
    /\ front = ""
    /\ llm = FALSE
    /\ llm_calls = << >>
    /\ insights = None
    /\ response = ""
    /\ current_document = None
    /\ analysis_results = << >>
    /\ TrendsIdle /\ BenchmarkIdle /\ DupontIdle /\ NormalizerIdle /\ ScanIdle /\ ChatIdle

NextKeywords == ExtractFromStructuredData

SpecKeywords == InitKeywords /\ [][NextKeywords]_vars

(* ------------------- the adapters' scans, step by step ---------------- *)

InitScan ==
    /\ pc = "doc"
    /\ parsed_doc \in GivenDocs
    /\ financial_data = << >>
    /\ scan = << >>
    /\ ratios = << >>
    /\ risks = << >>
    /\ front = ""
    /\ llm = FALSE
    /\ llm_calls = << >>
    /\ insights = None
    /\ response = ""
    /\ current_document = None
    /\ analysis_results = << >>
    /\ TrendsIdle /\ BenchmarkIdle /\ DupontIdle /\ NormalizerIdle /\ ChatIdle

ScanUnchanged ==
    UNCHANGED << ratios, risks, request_vars, trend_vars, benchmark_vars, dupont,
                 normalizer_vars, chat_vars >>

\* extract_financial_data: the record of Nones and the lines of the text.
StartLines ==
    /\ pc = "doc"
    /\ parsed_doc.type = "pdf"
    /\ financial_data' = [f \in Fields |-> None]
    /\ scan' = [lines |-> Split(Join(parsed_doc.pages), "\n"), n |-> 1]
    /\ pc' = "lines"
    /\ ScanUnchanged

\* for line in lines: one line
ScanNextLine ==
    /\ pc = "lines"
    /\ scan.n <= Len(scan.lines)
    /\ financial_data' = ScanLine(financial_data, scan.lines[scan.n])
    /\ scan' = [scan EXCEPT !.n = scan.n + 1]
    /\ UNCHANGED pc
    /\ ScanUnchanged

CopySalesToRevenue ==
    /\ pc = "lines"
    /\ scan.n > Len(scan.lines)
    /\ financial_data' = copy_sales_to_revenue(financial_data)
    /\ pc' = "copied"
    /\ UNCHANGED scan
    /\ ScanUnchanged

TextFreeCashFlow ==
    /\ pc = "copied"
    /\ financial_data' = text_free_cash_flow(financial_data)
    /\ pc' = "text_extracted"
    /\ UNCHANGED scan
    /\ ScanUnchanged

\* extract_from_structured_data: no rows to scan, or the rows of the document
StartRows ==
    /\ pc = "doc"
    /\ financial_data' = initialize_financial_data
    /\ IF parsed_doc.empty \/ parsed_doc.type \notin { "excel", "csv" }
       THEN pc' = "structured_extracted" /\ UNCHANGED scan
       ELSE /\ pc' = "rows"
            /\ \E label_order \in LabelOrders :
                  scan' = [rows |-> IF parsed_doc.type = "excel"
                                    THEN Concat(parsed_doc.sheets) ELSE parsed_doc.data,
                           n |-> 1, pass |-> 1, label_order |-> label_order]
    /\ ScanUnchanged

\* if not isinstance(row, dict): continue
SkipRow ==
    /\ pc = "rows"
    /\ scan.n <= Len(scan.rows)
    /\ ~ scan.rows[scan.n].is_dict
    /\ scan' = [scan EXCEPT !.n = scan.n + 1]
    /\ UNCHANGED << pc, financial_data >>
    /\ ScanUnchanged

FirstPass ==
    /\ pc = "rows"
    /\ scan.n <= Len(scan.rows)
    /\ scan.rows[scan.n].is_dict
    /\ scan.pass = 1
    /\ financial_data' = first_pass(financial_data, scan.rows[scan.n].items, 1)
    /\ scan' = [scan EXCEPT !.pass = 2]
    /\ UNCHANGED pc
    /\ ScanUnchanged

SecondPass ==
    /\ pc = "rows"
    /\ scan.n <= Len(scan.rows)
    /\ scan.pass = 2
    /\ financial_data' = second_pass(financial_data, scan.rows[scan.n].items, 1)
    /\ scan' = [scan EXCEPT !.pass = 3]
    /\ UNCHANGED pc
    /\ ScanUnchanged

ThirdPass ==
    /\ pc = "rows"
    /\ scan.n <= Len(scan.rows)
    /\ scan.pass = 3
    /\ financial_data' = third_pass(financial_data, scan.rows[scan.n].items,
                                    scan.label_order)
    /\ scan' = [scan EXCEPT !.pass = 1, !.n = scan.n + 1]
    /\ UNCHANGED pc
    /\ ScanUnchanged

DeriveFreeCashFlow ==
    /\ pc = "rows"
    /\ scan.n > Len(scan.rows)
    /\ financial_data' = derive_free_cash_flow(financial_data)
    /\ pc' = "structured_extracted"
    /\ UNCHANGED scan
    /\ ScanUnchanged

\* extract_from_xbrl: no data, or the lower-cased tags of the document
StartFields ==
    /\ pc = "doc"
    /\ parsed_doc.empty \/ parsed_doc.type = "xbrl"
    /\ financial_data' = initialize_financial_data
    /\ IF parsed_doc.empty \/ parsed_doc.data = << >>
       THEN pc' = "xbrl_extracted" /\ UNCHANGED scan
       ELSE /\ pc' = "fields"
            /\ scan' = [normalized |-> normalized_data(<< >>, parsed_doc.data, 1),
                        n |-> 1]
    /\ ScanUnchanged

\* for field, tags in KEYWORD_MAP.items(): one field
ScanNextField ==
    /\ pc = "fields"
    /\ scan.n <= Len(KEYWORD_MAP)
    /\ financial_data' = scan_field(financial_data, scan.n, scan.normalized)
    /\ scan' = [scan EXCEPT !.n = scan.n + 1]
    /\ UNCHANGED pc
    /\ ScanUnchanged

DeriveTagFreeCashFlow ==
    /\ pc = "fields"
    /\ scan.n > Len(KEYWORD_MAP)
    /\ financial_data' = derive_free_cash_flow(financial_data)
    /\ pc' = "xbrl_extracted"
    /\ UNCHANGED scan
    /\ ScanUnchanged

NextScan ==
    \/ StartLines \/ ScanNextLine \/ CopySalesToRevenue \/ TextFreeCashFlow
    \/ StartRows \/ SkipRow \/ FirstPass \/ SecondPass \/ ThirdPass
    \/ DeriveFreeCashFlow
    \/ StartFields \/ ScanNextField \/ DeriveTagFreeCashFlow

SpecScan == InitScan /\ [][NextScan]_vars

(* ------------------- claims about the ratio engine -------------------- *)

Known(fd, f) == Get(fd, f) # None

AllUnknown(fd) == \A f \in Fields : Get(fd, f) = None

Assessed == pc \in { "assessed", "assessed_given" }

\* The indices of the risks of one type.
OfType(rs, type) == { i \in 1..Len(rs) : rs[i].type = type }

\* C1: calculate_ratios on a record with revenue > 0 and net_income known (any
\* value, 0 and negatives included) yields a RatioSet that contains
\* profit_margin, equal to net_income / revenue * 100.
C1_ProfitMarginPresentAndExact ==
    (pc = "ratios" /\ Known(financial_data, "revenue") /\ V(financial_data["revenue"]) > 0
                   /\ Known(financial_data, "net_income"))
    => /\ "profit_margin" \in DOMAIN ratios
       /\ REq(ratios["profit_margin"],
              Rat(V(financial_data["net_income"]) * 100, V(financial_data["revenue"])))

\* The ratio each ratio-citing risk message belongs to.
RatioOfMessage ==
    [ m \in { "Company is reporting net losses", "Profit margin is very low",
              "Profit margin is below 5%", "Negative return on assets",
              "Return on assets is below 2%", "Negative return on equity",
              "Return on equity is below 5%", "Current ratio is below 1",
              "Current ratio is below 1.5", "Quick ratio is very low",
              "Quick ratio is below 1", "Debt-to-asset ratio exceeds 70%",
              "Debt-to-asset ratio exceeds 60%", "Debt-to-equity ratio is very high",
              "Debt-to-equity ratio is high", "Interest coverage ratio is below 1",
              "Interest coverage ratio is low" } |->
      CASE m \in { "Company is reporting net losses", "Profit margin is very low",
                   "Profit margin is below 5%" } -> "profit_margin"
        [] m \in { "Negative return on assets", "Return on assets is below 2%" } -> "roa"
        [] m \in { "Negative return on equity", "Return on equity is below 5%" } -> "roe"
        [] m \in { "Current ratio is below 1", "Current ratio is below 1.5" } -> "current_ratio"
        [] m \in { "Quick ratio is very low", "Quick ratio is below 1" } -> "quick_ratio"
        [] m \in { "Debt-to-asset ratio exceeds 70%", "Debt-to-asset ratio exceeds 60%" }
             -> "debt_to_asset_ratio"
        [] m \in { "Debt-to-equity ratio is very high", "Debt-to-equity ratio is high" }
             -> "debt_to_equity_ratio"
        [] OTHER -> "interest_coverage" ]

\* C2: with every metric unknown and an empty RatioSet, assess_risks returns
\* an empty list; and no threshold rule fires for a ratio that is absent from
\* the RatioSet.
C2_NoRiskWithoutData ==
    Assessed
    => /\ (AllUnknown(financial_data) /\ DOMAIN ratios = {}) => risks = << >>
       /\ \A i \in 1..Len(risks) :
            risks[i].description \in DOMAIN RatioOfMessage
            => RatioOfMessage[risks[i].description] \in DOMAIN ratios

\* What the ratio table names for each ratio: the fields that must be known
\* (revenue stands for revenue-or-sales, cash for cash-or-cash_equivalents, as
\* the engine reads them) and the field that divides.
EffKnown(fd, f) ==
    CASE f = "revenue" -> Known(fd, "revenue") \/ Known(fd, "sales")
      [] f = "cash" -> Known(fd, "cash") \/ Known(fd, "cash_equivalents")
      [] OTHER -> Known(fd, f)

EffValue(fd, f) ==
    CASE f = "revenue" -> V(Or(Get(fd, "revenue"), Get(fd, "sales")))
      [] f = "cash" -> V(Or(Get(fd, "cash"), Get(fd, "cash_equivalents")))
      [] OTHER -> V(Get(fd, f))

NamedInputs ==
    [ profit_margin |-> { "net_income", "revenue" },
      gross_margin |-> { "gross_profit", "revenue" },
      operating_margin |-> { "operating_income", "revenue" },
      roa |-> { "net_income", "total_assets" },
      roe |-> { "net_income", "equity" },
      current_ratio |-> { "current_assets", "current_liabilities" },
      quick_ratio |-> { "current_assets", "current_liabilities" },
      cash_ratio |-> { "cash", "current_liabilities" },
      debt_to_asset_ratio |-> { "total_liabilities", "total_assets" },
      equity_multiplier |-> { "total_assets", "equity" },
      debt_to_equity_ratio |-> { "total_liabilities", "equity" },
      interest_coverage |-> { "interest_expense" },
      asset_turnover |-> { "revenue", "total_assets" },
      inventory_turnover |-> { "revenue", "inventory" },
      cash_flow_to_revenue |-> { "operating_cash_flow", "revenue" },
      free_cash_flow_margin |-> { "free_cash_flow" } ]

Denominator ==
    [ profit_margin |-> "revenue", gross_margin |-> "revenue",
      operating_margin |-> "revenue", roa |-> "total_assets", roe |-> "equity",
      current_ratio |-> "current_liabilities", quick_ratio |-> "current_liabilities",
      cash_ratio |-> "current_liabilities", debt_to_asset_ratio |-> "total_assets",
      equity_multiplier |-> "equity", debt_to_equity_ratio |-> "equity",
      interest_coverage |-> "interest_expense", asset_turnover |-> "total_assets",
      inventory_turnover |-> "inventory", cash_flow_to_revenue |-> "revenue" ]

\* C4: calculate_ratios never raises; a ratio key is present only if all of
\* its named inputs are known (interest_coverage: operating_income or
\* net_income as well) and its denominator is strictly positive; a record with
\* total_assets = 0 yields neither roa nor asset_turnover; and every division
\* performed has a strictly positive denominator.
C4_RatioPresentOnlyIfComputable ==
    /\ pc # "raised"
    /\ pc = "ratios"
       => /\ \A r \in DOMAIN ratios :
               /\ \A f \in NamedInputs[r] : EffKnown(financial_data, f)
               /\ r \in DOMAIN Denominator
                  => EffValue(financial_data, Denominator[r]) > 0
               /\ r = "interest_coverage"
                  => Known(financial_data, "operating_income")
                     \/ Known(financial_data, "net_income")
          /\ financial_data["total_assets"] = Some(0)
             => "roa" \notin DOMAIN ratios /\ "asset_turnover" \notin DOMAIN ratios
          /\ \A d \in ratio_divisors(financial_data) : d > 0

C4_Witness ==
    /\ pc = "ratios"
    /\ financial_data["total_assets"] = Some(0)
    /\ financial_data["net_income"] = Some(1)
    /\ "roa" \notin DOMAIN ratios

(* ------------------- claims about the risk assessor ------------------- *)

DebtToAssetMessages ==
    { "Debt-to-asset ratio exceeds 70%", "Debt-to-asset ratio exceeds 60%" }

\* C5: a debt_to_asset_ratio of exactly 70, with no debt_to_equity_ratio,
\* yields exactly one Leverage Risk, of severity Medium; a value above 70 yields
\* exactly one Leverage Risk from the debt-to-asset rule, of severity High.
C5_LeverageBoundary ==
    (Assessed /\ "debt_to_asset_ratio" \in DOMAIN ratios)
    => LET dta == ratios["debt_to_asset_ratio"]
           lev == OfType(risks, "Leverage Risk")
           own == { i \in lev : risks[i].description \in DebtToAssetMessages }
       IN  /\ (REq(dta, Whole(70)) /\ "debt_to_equity_ratio" \notin DOMAIN ratios)
              => /\ Cardinality(lev) = 1
                 /\ \A i \in lev : risks[i].severity = "Medium"
           /\ RGt(dta, Whole(70))
              => /\ Cardinality(own) = 1
                 /\ \A i \in own : risks[i].severity = "High"

C5_Witness ==
    /\ pc = "assessed_given"
    /\ "debt_to_asset_ratio" \in DOMAIN ratios
    /\ REq(ratios["debt_to_asset_ratio"], Whole(70))
    /\ \E i \in 1..Len(risks) : risks[i].type = "Leverage Risk" /\ risks[i].severity = "Medium"

\* C6: for every profit_margin p with 0 <= p <= 3 (3 included) the risk list
\* contains a Profitability Risk and the first such entry has severity High.
C6_LowProfitabilityIsHigh ==
    (Assessed /\ "profit_margin" \in DOMAIN ratios
              /\ ~ RLt(ratios["profit_margin"], Whole(0))
              /\ ~ RGt(ratios["profit_margin"], Whole(3)))
    => LET prof == OfType(risks, "Profitability Risk")
       IN  /\ prof # {}
           /\ \A i \in prof : (\A j \in prof : i <= j) => risks[i].severity = "High"

\* C7: whenever net_income is known and negative the risk list holds exactly
\* one Loss Risk, of severity High, whatever profit_margin is; and no input
\* produces two Loss Risk entries.
C7_ExactlyOneLossRisk ==
    Assessed
    => LET loss == OfType(risks, "Loss Risk")
       IN  /\ Cardinality(loss) <= 1
           /\ (Known(financial_data, "net_income") /\ V(financial_data["net_income"]) < 0)
              => /\ Cardinality(loss) = 1
                 /\ \A i \in loss : risks[i].severity = "High"

C7_Witness ==
    /\ Assessed
    /\ Known(financial_data, "net_income") /\ V(financial_data["net_income"]) < 0
    /\ "profit_margin" \in DOMAIN ratios /\ RLt(ratios["profit_margin"], Whole(0))
    /\ Cardinality(OfType(risks, "Loss Risk")) = 1

(* --------------------- claims about the adapters ---------------------- *)

AdapterReturned == pc \in { "text_extracted", "structured_extracted", "xbrl_extracted" }

\* C10: every record returned by the text, tabular and tag adapters, for any
\* input (empty, malformed or absent data included), has exactly the 20
\* recognized metric keys, each holding a number or None, and no other key.
C10_AdaptersReturnTheRecognizedKeys ==
    AdapterReturned
    => /\ DOMAIN financial_data = Fields
       /\ \A f \in Fields :
             \/ financial_data[f] = None
             \/ Len(financial_data[f]) = 1 /\ financial_data[f][1] \in Int

\* The tabular adapter has skipped a row that is not a dict and taken cash
\* from a labelled row.
C10_Witness ==
    /\ pc = "structured_extracted"
    /\ parsed_doc.type = "csv"
    /\ \E i \in 1..Len(parsed_doc.data) : ~ parsed_doc.data[i].is_dict
    /\ financial_data["cash"] = Some(4500)
    /\ financial_data["revenue"] = None

(* ----------------- claims about the analysis request ------------------ *)

LastCall == llm_calls[Len(llm_calls)]

\* C3: when an external LLM call made while analysing a document raises, the
\* request still completes and returns the locally derived financial_data,
\* ratios and risks, without the AI-derived field; the failure is never
\* handed to the caller as a failure of the request.
C3_LLMFailureNeverFailsTheRequest ==
    (pc = "done" /\ \E i \in 1..Len(llm_calls) : llm_calls[i].raised)
    => /\ response = "results"
       /\ ratios = calculate_ratios(financial_data)
       /\ risks = assess_risks(financial_data, ratios)
       /\ LastCall.raised => insights = None

C9_NoAdapterYieldsAllUnknownRecord ==
    (/\ pc = "metrics"
     /\ parsed_doc.type \notin { "pdf", "excel", "csv", "xbrl" }
     /\ ~ llm \/ (llm_calls # << >> /\ LastCall.raised))
    => financial_data = initialize_financial_data

(* ------------------- claims about the trend analyzer ------------------ *)

\* C11: with exactly two periods whose first revenue is > 0, the
\* revenue_growth_rate is (last - first) / first * 100 rounded to 2 decimals,
\* revenue_trend is increasing iff that growth is > 0 and decreasing otherwise,
\* and no CAGR field is produced; 1,000,000 then 1,200,000 gives increasing,
\* 20.0 and no CAGR.
C11_TwoPeriodRevenueTrend ==
    (pc = "trends" /\ Len(historical_data) = 2 /\ revenue_values(historical_data)[1] > 0)
    => LET first == revenue_values(historical_data)[1]
           last == revenue_values(historical_data)[2]
           rate == V(trends.revenue_growth_rate)
       IN  /\ trends.revenue_growth_rate # None
           /\ rate.den = 100
           /\ 2 * Abs(rate.num * first - (last - first) * 10000) <= first
           /\ trends.revenue_trend =
                 Some(IF last > first THEN "increasing" ELSE "decreasing")
           /\ "revenue_cagr" \notin DOMAIN trends
           /\ (first = 10 /\ last = 12)
              => /\ trends.revenue_trend = Some("increasing")
                 /\ rate = Rat(2000, 100)

C11_Witness ==
    /\ pc = "trends"
    /\ Len(historical_data) = 2
    /\ Get(historical_data[1], "revenue") = Some(10)
    /\ Get(historical_data[2], "revenue") = Some(12)
    /\ trends.revenue_trend = Some("increasing")
    /\ trends.revenue_growth_rate = Some(Rat(2000, 100))

\* C12: with fewer than two periods identify_trends returns the
\* insufficient-data message and populates nothing: every trend and growth
\* entry is None, the value lists are empty, and there is no CAGR or
\* year-over-year field.
C12_InsufficientDataPopulatesNothing ==
    (pc = "trends" /\ Len(historical_data) < 2)
    => /\ DOMAIN trends = DOMAIN empty_trends \cup { "message" }
       /\ trends.message = InsufficientData
       /\ \A k \in { "revenue_trend", "profit_trend", "asset_trend",
                     "revenue_growth_rate", "profit_growth_rate",
                     "asset_growth_rate" } : trends[k] = None
       /\ \A k \in { "periods", "revenue_values", "net_income_values",
                     "total_assets_values" } : trends[k] = << >>

C12_Witness ==
    /\ pc = "trends"
    /\ Len(historical_data) = 1
    /\ Get(historical_data[1], "revenue") = Some(12)
    /\ trends.message = InsufficientData
    /\ trends.revenue_values = << >>

(* ------------------- claims about the peer benchmark ------------------ *)

\* The (metric, value) pairs of the table compare selected.
SelectedRatios ==
    LET entry == benchmarks[Lower(V(benchmark).industry)]
    IN  IF "ratios" \in DOMAIN entry THEN entry.ratios ELSE << >>

Alerted(metric) ==
    \E i \in 1..Len(V(benchmark).alerts) : V(benchmark).alerts[i].metric = metric

\* C13: for each ratio present in both the selected table and the RatioSet,
\* difference = company - benchmark, and an alert is emitted exactly when
\* difference <= -5 (profit_margin, roa, roe), difference <= -0.3
\* (current_ratio, quick_ratio) or difference >= +10 (debt_to_asset_ratio,
\* debt_to_equity_ratio); {profit_margin 6.0, debt_to_asset_ratio 70.0}
\* against 'general' gives exactly one alert, the leverage one.
C13_AlertExactlyAtThreshold ==
    (pc = "compared" /\ benchmark # None)
    => /\ \A i \in 1..Len(SelectedRatios) :
             LET metric == SelectedRatios[i][1]
                 difference == RSub(ratios[metric], SelectedRatios[i][2])
             IN  metric \in DOMAIN ratios
                 => /\ \E j \in 1..Len(V(benchmark).metrics) :
                          /\ V(benchmark).metrics[j].metric = metric
                          /\ V(benchmark).metrics[j].difference
                                = Round2(difference.num, difference.den)
                    /\ Alerted(metric)
                       <=> \/ /\ metric \in { "profit_margin", "roa", "roe" }
                              /\ ~ RGt(difference, Whole(-5))
                           \/ /\ metric \in { "current_ratio", "quick_ratio" }
                              /\ ~ RGt(difference, Rat(-3, 10))
                           \/ /\ metric \in { "debt_to_asset_ratio", "debt_to_equity_ratio" }
                              /\ ~ RLt(difference, Whole(10))
       /\ ( /\ ratios = [profit_margin |-> Rat(600, 100),
                          debt_to_asset_ratio |-> Rat(7000, 100)]
            /\ V(benchmark).industry = "General" /\ benchmarks = DEFAULT_BENCHMARKS )
          => /\ Len(V(benchmark).alerts) = 1
             /\ Alerted("debt_to_asset_ratio")

\* C14: for any table supplied at construction and any industry string,
\* compare matches the industry key case-insensitively after trimming, falls
\* back to 'general' for an unrecognized or missing industry, and returns a
\* result or None: it never raises.
C14_CompareNeverRaises ==
    /\ pc # "raised"
    /\ (pc = "compared" /\ benchmark # None)
       => LET wanted == Lower(Strip(IF industry = None \/ V(industry) = "" THEN "general"
                                    ELSE V(industry)))
              keys == { k \in DOMAIN benchmarks : Lower(k) = wanted }
          IN  Lower(V(benchmark).industry)
                \in (IF keys # {} THEN { Lower(k) : k \in keys } ELSE { "general" })

(* ------------------- claims about the DuPont analysis ----------------- *)

FourFactors == { "roe", "profit_margin", "asset_turnover", "equity_multiplier" }

\* C15: whenever calculate_ratios derives roe, profit_margin, asset_turnover
\* and equity_multiplier, calculate_dupont_analysis reports calculated_roe =
\* (profit_margin / 100) * asset_turnover * equity_multiplier * 100 (rounded
\* to 2 decimals), and that value is within half a hundredth of roe.
C15_CalculatedRoeMatchesRoe ==
    (pc = "dupont" /\ FourFactors \subseteq DOMAIN ratios)
    => /\ "calculated_roe" \in DOMAIN dupont
       /\ LET pm == ratios.profit_margin
              at == ratios.asset_turnover
              em == ratios.equity_multiplier
              roe == ratios.roe
              calc == V(dupont.calculated_roe)
          IN  /\ calc.den = 100
              \* calc is the product rounded: | calc - product | <= 1/200
              /\ 2 * Abs(calc.num * (pm.den * at.den * em.den)
                         - 100 * (pm.num * at.num * em.num))
                    <= pm.den * at.den * em.den
              \* | calc - roe | <= 1/200
              /\ 2 * Abs(calc.num * roe.den - 100 * roe.num) <= roe.den

C15_Witness ==
    /\ pc = "dupont"
    /\ FourFactors \subseteq DOMAIN ratios
    /\ financial_data.net_income = Some(1)
    /\ financial_data.equity = Some(3)
    /\ financial_data.revenue = Some(7)
    /\ dupont.calculated_roe = Some(Rat(3333, 100))

(* ------------------- claims about the numeric normalizer -------------- *)

\* The text between the parentheses of a cell of the form "(N)".
Parenthesised(s) == SubSeq(Strip(s), 2, Len(Strip(s)) - 1)

IsParenthesised(s) ==
    /\ StartsAt(Strip(s), 1, "(")
    /\ Char(Strip(s), Len(Strip(s))) = ")"
    /\ ~ Contains(Parenthesised(s), "(")
    /\ ~ Contains(Parenthesised(s), ")")

\* C16: _to_number reads "(N)" as the negative of N; drops ',', '$', '%' and
\* 'USD' ("(1,234.50)" is -1234.50, "$45,000" is 45000.0, "12%" is 12.0);
\* yields unknown for an empty string, a cleaned string that is empty or "-",
\* an unparsable string, a NaN or infinite number and any other non-string;
\* never raises and never returns NaN or infinity.
C16_NormalizerIsTotalAndFinite ==
    /\ pc # "raised"
    /\ pc = "number"
       => /\ number # Some(Infinity) /\ number # Some(0 - Infinity)
          /\ value = StrCell("(1,234.50)") => number = Some(-123450)
          /\ value = StrCell("$45,000") => number = Some(4500000)
          /\ value = StrCell("12%") => number = Some(1200)
          /\ value.t \in { "none", "nan", "other" } => number = None
          /\ (value.t = "str" /\ Strip(value.s) \in { "", "-", "$", "abc", "1.2.3", "1.2.3%" })
             => number = None
          /\ (value.t = "str" /\ IsParenthesised(value.s))
             => LET inner == _to_number(StrCell(Parenthesised(value.s)))
                IN  number = IF inner = None THEN None ELSE Some(0 - V(inner))

(* ------------------- claims about the ratio fallbacks ----------------- *)

\* C19: whenever operating_income is known (0 included) and interest_expense
\* > 0, interest_coverage = operating_income / interest_expense; the fallback
\* (net_income + interest_expense) / interest_expense is used only when
\* operating_income is unknown.
C19_InterestCoverageUsesKnownOperatingIncome ==
    (pc = "ratios" /\ Known(financial_data, "interest_expense")
                   /\ V(financial_data.interest_expense) > 0)
    => LET operating_income == financial_data.operating_income
           net_income == financial_data.net_income
           interest_expense == V(financial_data.interest_expense)
       IN  /\ operating_income # None
              => /\ "interest_coverage" \in DOMAIN ratios
                 /\ REq(ratios.interest_coverage,
                        Rat(V(operating_income), interest_expense))
           /\ (operating_income = None /\ "interest_coverage" \in DOMAIN ratios)
              => /\ net_income # None
                 /\ REq(ratios.interest_coverage,
                        Rat(V(net_income) + interest_expense, interest_expense))

\* C20: whenever current_liabilities > 0 (and current_assets is known) a known
\* inventory (0 included) gives quick_ratio = (current_assets - inventory) /
\* current_liabilities; accounts_receivable is subtracted only when inventory
\* is unknown, and current_assets is used unadjusted only when both are.
C20_QuickRatioPrefersKnownInventory ==
    (pc = "ratios" /\ Known(financial_data, "current_liabilities")
                   /\ V(financial_data.current_liabilities) > 0
                   /\ Known(financial_data, "current_assets"))
    => LET current_assets == V(financial_data.current_assets)
           current_liabilities == V(financial_data.current_liabilities)
           inventory == financial_data.inventory
           accounts_receivable == financial_data.accounts_receivable
           quick_assets ==
               IF inventory # None THEN current_assets - V(inventory)
               ELSE IF accounts_receivable # None
                    THEN current_assets - V(accounts_receivable)
                    ELSE current_assets
       IN  /\ "quick_ratio" \in DOMAIN ratios
           /\ REq(ratios.quick_ratio, Rat(quick_assets, current_liabilities))

(* ------------------- claims about the conversations ------------------- *)

\* The step is a call of answer_question.
AnswerQuestionCalled == llm_calls' # << >> /\ llm_calls'[1].call = "answer_question"

OthersUnchanged(user) ==
    \A other \in (DOMAIN conversation_histories \cup DOMAIN conversation_histories') \ { user } :
        GetOr(conversation_histories', other, << >>)
          = GetOr(conversation_histories, other, << >>)

\* The asker's history before the call, with the question and the answer.
WithExchange(user) ==
    GetOr(conversation_histories, user, << >>)
      \o << Message("user", llm_calls'[1].payload.question),
            Message("assistant", V(answer')) >>

\* C17 as stated: a successful answer_question leaves the asker's history
\* longer by exactly two entries, the question then the answer; a failed one
\* leaves it as it was; no other user's history changes.
C17_AppendsExactlyTwoEntries ==
    [][ AnswerQuestionCalled
        => LET user == llm_calls'[1].payload.user_id
           IN  /\ GetOr(conversation_histories', user, << >>)
                    = IF llm_calls'[1].raised
                      THEN GetOr(conversation_histories, user, << >>)
                      ELSE WithExchange(user)
               /\ OthersUnchanged(user) ]_vars

\* C17 as amended: a successful answer_question appends the question then the
\* answer to the asker's history, which then keeps only its 20 most recent
\* entries; a failed one leaves it as it was; no other user's history changes.
C17_AppendsTwoEntriesKeepingLastTwenty ==
    [][ AnswerQuestionCalled
        => LET user == llm_calls'[1].payload.user_id
               with_exchange == WithExchange(user)
           IN  /\ GetOr(conversation_histories', user, << >>)
                    = IF llm_calls'[1].raised
                      THEN GetOr(conversation_histories, user, << >>)
                      ELSE SubSeq(with_exchange,
                                  IF Len(with_exchange) > 20 THEN Len(with_exchange) - 19 ELSE 1,
                                  Len(with_exchange))
               /\ OthersUnchanged(user) ]_vars

\* An eleventh exchange has been answered: the history is full, it ends with
\* the last question and its answer, and the other user's history is there.
C17_Witness ==
    /\ answer = Some("answer")
    /\ llm_calls # << >> /\ llm_calls[1].call = "answer_question"
    /\ llm_calls[1].payload.user_id = "default"
    /\ Len(llm_calls[1].payload.messages) = 11
    /\ DOMAIN conversation_histories = { "default", "u1" }
    /\ Len(conversation_histories["default"]) = 20
    /\ conversation_histories["default"][1] = Message("user", "Why?")
    /\ conversation_histories["default"][19] = Message("user", "Q?")
    /\ conversation_histories["default"][20] = Message("assistant", "answer")

(* ------------------- claims about the chatbot ------------------------- *)

\* C18: after any operations, reset leaves current_document None,
\* analysis_results empty and the LLM conversation history cleared, and an
\* ask_question that follows returns the 'upload and analyze a financial
\* statement first' message without calling the LLM.
C18_ResetReturnsToTheInitialState ==
    [][ /\ pc' = "reset"
           => /\ current_document' = None
              /\ analysis_results' = << >>
              /\ conversation_histories' = << >>
        /\ (pc = "reset" /\ pc' = "asked")
           => /\ answer' = Some(UploadFirst)
              /\ llm_calls' = << >>
              /\ conversation_histories' = << >> ]_vars

\* A question asked after a reset that followed a stored analysis and an
\* answered question.
C18_Witness ==
    /\ pc = "asked"
    /\ llm
    /\ response = "results"
    /\ answer = Some(UploadFirst)
    /\ analysis_results = << >>
    /\ current_document = None
    /\ conversation_histories = << >>
    /\ insights = Some("insights")

(* ------------------- claims about guarded arithmetic ------------------ *)

\* C21: calculate_ratios, assess_risks, calculate_dupont_analysis and
\* identify_trends complete without an arithmetic or type error on every input
\* whose values are real numbers or unknown, sequences of three or more
\* periods with zero or negative values included: here, identify_trends
\* returns from every sequence of periods.
C21_TrendsCompleteWithoutRaising ==
    pc \in { "periods", "trends" }

\* The series a CAGR is tracked for, with the key of its CAGR.
TrackedSeries ==
    [revenue_cagr |-> revenue_values(historical_data),
     profit_cagr |-> net_income_values(historical_data),
     asset_cagr |-> total_assets_values(historical_data)]

\* C22: for each tracked series (revenue, profit, assets) a CAGR
\* ((last / first) ** (1 / (n - 1)) - 1) * 100 is produced when there are at
\* least 3 periods and the first value of the series is > 0, and none is
\* produced for any series with fewer than 3 periods.
C22_CagrForEachTrackedSeries ==
    LET n == Len(historical_data)
    IN  /\ pc = "trends" /\ n < 3
           => \A k \in DOMAIN TrackedSeries : k \notin DOMAIN trends
        /\ \A k \in DOMAIN TrackedSeries :
              (pc \in { "trends", "raised" } /\ n >= 3 /\ TrackedSeries[k][1] > 0)
              => /\ pc = "trends"
                 /\ k \in DOMAIN trends
                 /\ trends[k] = Some(Cagr(TrackedSeries[k][n], TrackedSeries[k][1], n - 1))

(* ------------------- claims about the keyword mapping ----------------- *)

\* The label of a one-row keyword document: its header, or the cell of its
\* label column.
LabelText ==
    LET items == parsed_doc.data[1].items
    IN  IF Len(items) = 1 THEN items[1][1] ELSE items[1][2].s

\* C23: for every field F and every keyword k listed for F in KEYWORD_MAP, a
\* column header or row label whose text is exactly k, in any letter case, is
\* mapped to F: the row's value populates F ('Revenue' populates revenue,
\* 'sales' sales, 'operating cash flow' operating_cash_flow, 'free cash flow'
\* free_cash_flow).
C23_KeywordLabelPopulatesItsField ==
    pc = "structured_extracted"
    => \A k \in 1..Len(KEYWORD_MAP) :
          (\E j \in 1..Len(KEYWORD_MAP[k][2]) : Lower(LabelText) = KEYWORD_MAP[k][2][j])
          => financial_data[KEYWORD_MAP[k][1]] = _to_number(KeywordAmount)

(* ------------------- claims about the adapters' scans ----------------- *)

\* C24: within one run of an adapter (text, tabular, tag), a field that has
\* been given a value is changed by no later line, row, pass or keyword, nor
\* by the sales-to-revenue copy or the free_cash_flow derivation, which write
\* only fields that are still unknown; the record the run ends with is the
\* adapter's result, each field holding the first value found for it.
C24_FirstValueFoundIsFinal ==
    [][ /\ \A f \in DOMAIN financial_data :
              financial_data[f] # None => financial_data'[f] = financial_data[f]
        /\ pc' = "text_extracted"
           => financial_data' = extract_financial_data(Join(parsed_doc.pages))
        /\ (pc' = "structured_extracted" /\ pc = "rows")
           => financial_data' = extract_from_structured_data(parsed_doc, scan.label_order)
        /\ pc' = "xbrl_extracted"
           => financial_data' = extract_from_xbrl(parsed_doc) ]_vars

\* A tabular run on two rows that both name revenue: the first row's value
\* is the one the run ends with.
C24_Witness ==
    /\ pc = "structured_extracted"
    /\ parsed_doc.type = "csv"
    /\ parsed_doc.data =
          << DictRow(<< << "Metric", StrCell("Revenue") >>,
                        << "FY2023", StrCell("1,200") >>,
                        << "FY2022", StrCell("1,000") >> >>),
             DictRow(<< << "Revenue", NumCell(50000) >>,
                        << "Net Income", StrCell("(50)") >> >>) >>
    /\ financial_data["revenue"] = _to_number(StrCell("1,200"))
    /\ financial_data["net_income"] = _to_number(StrCell("(50)"))

(* ------------------- claims about the risk tiers ---------------------- *)

\* The risks a ratio's threshold rule appended.
RisksOfRatio(name) ==
    { i \in 1..Len(risks) :
        risks[i].description \in DOMAIN RatioOfMessage
        /\ RatioOfMessage[risks[i].description] = name }

\* The value a threshold rule reads: the ratio, or 0 when it is absent.
RuleValue(name) == GetOr(ratios, name, Whole(0))

\* Whether the most severe tier of a ratio's rule matches.
SevereTier(name) ==
    CASE name = "profit_margin" -> RLt(RuleValue(name), Whole(3))
      [] name = "roa" -> RLt(RuleValue(name), Whole(0))
      [] name = "roe" -> RLt(RuleValue(name), Whole(0))
      [] name = "current_ratio" -> RLt(RuleValue(name), Whole(1))
      [] name = "quick_ratio" -> RLt(RuleValue(name), Rat(1, 2))
      [] name = "debt_to_asset_ratio" -> RGt(RuleValue(name), Whole(70))
      [] name = "debt_to_equity_ratio" -> RGt(RuleValue(name), Whole(200))
      [] name = "interest_coverage" -> RLt(RuleValue(name), Whole(1))

\* C25: each ratio threshold rule of assess_risks appends at most one risk per
\* call, of the most severe tier that matches, never a High and a Medium entry
\* for the same ratio; the cash-flow rules may append two Cash Flow Risk
\* entries, High for a negative operating_cash_flow and then Medium for a
\* negative free_cash_flow; every entry's severity is High or Medium.
C25_OneTierPerRatio ==
    Assessed
    => /\ \A name \in AssessedRatios :
             /\ Cardinality(RisksOfRatio(name)) <= 1
             /\ \A i \in RisksOfRatio(name) :
                   risks[i].severity = IF SevereTier(name) THEN "High" ELSE "Medium"
             /\ SevereTier(name) /\ (name = "interest_coverage" => name \in DOMAIN ratios)
                => RisksOfRatio(name) # {}
       /\ LET cash == OfType(risks, "Cash Flow Risk")
          IN  /\ Cardinality(cash) <= 2
              /\ \A i, j \in cash : i < j => /\ risks[i].severity = "High"
                                             /\ risks[j].severity = "Medium"
       /\ \A i \in 1..Len(risks) : risks[i].severity \in { "High", "Medium" }

\* Both cash flows negative and a ratio in its severe tier: two Cash Flow
\* Risk entries and the ratio's High entry.
C25_Witness ==
    /\ Assessed
    /\ Cardinality(OfType(risks, "Cash Flow Risk")) = 2
    /\ \E name \in AssessedRatios :
          /\ name \in DOMAIN ratios
          /\ \E i \in RisksOfRatio(name) : risks[i].severity = "High"

(* ------------------- claims about the benchmark summary --------------- *)

\* C26: the output of compare is self-consistent: a metric for which an
\* unfavourable alert is emitted is never the metric the summary cites as
\* outperforming peers; in particular a leverage ratio (debt_to_asset_ratio,
\* debt_to_equity_ratio) above its benchmark is never reported in the summary
\* as 'Outperforms peers'.
C26_AlertedMetricNeverOutperforms ==
    (pc = "compared" /\ benchmark # None /\ V(benchmark).summary.outperforms # None)
    => LET cited == V(V(benchmark).summary.outperforms).metric
       IN  /\ ~ Alerted(cited)
           /\ cited \notin { "debt_to_asset_ratio", "debt_to_equity_ratio" }

(* ------------------- claims about the chatbot's state ----------------- *)

\* Whether results is what upload_and_analyze computes from doc, for some
\* outcome of the external calls.
ComputedFrom(results, doc) ==
    \E label_order \in OutcomesOf(doc.type \in { "excel", "csv" }, LabelOrders),
       structured_call \in OutcomesOf(llm /\ doc.type = "pdf"
                                         /\ Strip(Join(doc.pages)) # "",
                                      StructuredOutcomes),
       vision_outcome \in OutcomesOf(llm /\ doc.type = "image", VisionOutcomes) :
       \E fd \in { _extract_data_from_parsed_doc(doc, llm, label_order, structured_call,
                                                 vision_outcome) } :
          results = stored_results(doc, fd, calculate_ratios(fd),
                                   IF llm /\ DOMAIN fd # {} THEN Some("insights")
                                   ELSE None)

TextAlone ==
    /\ ~ parsed_doc.empty
    /\ parsed_doc.type = "pdf"
    /\ \/ pc = "text_extracted"
       \/ /\ pc \in { "metrics", "ratios", "raised", "assessed", "insights", "done" }
          /\ DOMAIN financial_data # {}
          /\ \A i \in 1..Len(llm_calls) : llm_calls[i].call # "extract_structured_data"

\* C28: every value of the record extract_financial_data returns is unknown
\* or >= 0, signs and parenthesised negatives never being captured from a
\* line; so its derived free_cash_flow is never negative, and a record of the
\* text adapter alone never triggers the negative-net-income 'Loss Risk' nor a
\* 'Cash Flow Risk'.
C28_TextAdapterValuesAreNotNegative ==
    TextAlone
    => /\ \A f \in DOMAIN financial_data :
             financial_data[f] = None \/ V(financial_data[f]) >= 0
       /\ pc \in { "assessed", "insights", "done" }
          => /\ OfType(risks, "Loss Risk") = {}
             /\ OfType(risks, "Cash Flow Risk") = {}

\* The risks of a pdf whose pages write a parenthesised net income and a
\* signed investing flow.
C28_Witness ==
    /\ TextAlone
    /\ pc = "assessed"
    /\ parsed_doc.pages = << "Net sales 900\nNet income (50)", "Investing activities -10" >>
    /\ financial_data["net_income"] = Some(5000)
    /\ financial_data["investing_cash_flow"] = Some(1000)

(* ------------------- claims about the profit trend -------------------- *)

\* C29: identify_trends with at least two periods always sets profit_trend to
\* 'increasing' or 'decreasing', never None, an unknown net_income counting as
\* 0: with net_income unknown in every period the result has profit_trend
\* 'decreasing' and profit_growth_rate None; revenue_trend and asset_trend
\* stay None whenever the first value of their series is not > 0.
C29_ProfitTrendAlwaysSet ==
    (pc \in { "trends", "raised" } /\ Len(historical_data) >= 2)
    => /\ pc = "trends"
       /\ trends.profit_trend \in { Some("increasing"), Some("decreasing") }
       /\ (\A i \in 1..Len(historical_data) : Get(historical_data[i], "net_income") = None)
          => /\ trends.profit_trend = Some("decreasing")
             /\ trends.profit_growth_rate = None
       /\ revenue_values(historical_data)[1] <= 0 => trends.revenue_trend = None
       /\ total_assets_values(historical_data)[1] <= 0 => trends.asset_trend = None

(* ------------------- claims about the stored history ------------------ *)

\* s is the last n entries of t, in t's order (all of t when it has fewer).
IsMostRecent(s, t, n) ==
    /\ Len(s) = (IF Len(t) > n THEN n ELSE Len(t))
    /\ \A i \in 1..Len(s) : s[i] = t[Len(t) - Len(s) + i]

\* C30: after any sequence of answer_question calls each user's stored
\* history holds at most 20 messages, which are the most recent ones in their
\* original order, and at most the last 10 stored messages are sent as
\* context with the next question.
C30_HistoryKeepsMostRecentTwenty ==
    /\ [](\A user \in DOMAIN conversation_histories :
              Len(conversation_histories[user]) <= 20)
    /\ [][ AnswerQuestionCalled
           => LET user == llm_calls'[1].payload.user_id
                  stored == GetOr(conversation_histories, user, << >>)
                  sent == llm_calls'[1].payload.messages
              IN  /\ Len(sent) <= 10 + 1
                  /\ sent[Len(sent)] = Message("user", llm_calls'[1].payload.question)
                  /\ IsMostRecent(SubSeq(sent, 1, Len(sent) - 1), stored, 10)
                  /\ ~ llm_calls'[1].raised
                     => IsMostRecent(conversation_histories'[user],
                                     stored \o << sent[Len(sent)],
                                                  Message("assistant", V(answer')) >>,
                                     20) ]_vars

\* A named user's question has been answered with ten stored messages sent
\* along, and the user's history is full: it starts with the question "Q?"
\* and ends with the question "Why?" and its answer.
C30_Witness ==
    /\ answer = Some("answer")
    /\ llm_calls # << >> /\ llm_calls[1].call = "answer_question"
    /\ llm_calls[1].payload.user_id = "u1"
    /\ llm_calls[1].payload.question = "Why?"
    /\ Len(llm_calls[1].payload.messages) = 11
    /\ llm_calls[1].payload.messages[1] = Message("user", "Q?")
    /\ "u1" \in DOMAIN conversation_histories
    /\ Len(conversation_histories["u1"]) = 20
    /\ conversation_histories["u1"][1] = Message("user", "Q?")
    /\ conversation_histories["u1"][19] = Message("user", "Why?")

====
